---- MODULE Spec2Model ----
(***************************************************************************)
(* A model of the RestPerf performance-counter collector                   *)
(* (cmd/collectors/restperf/restperf.go): the schema cache kept by         *)
(* PollCounter, the instance cache kept by PollInstance, and the data      *)
(* cycle of PollData with its post-processing of raw counters against the  *)
(* previous poll.                                                          *)
(*                                                                         *)
(* Strings that the code concatenates (instance keys) are sequences of     *)
(* tokens, so that concatenation is \o.  Counter values are rationals      *)
(* [ok, n, d]: ok is the matrix's "record" bit of the value, n/d the       *)
(* number in lowest terms.                                                 *)
(***************************************************************************)
EXTENDS Integers, Sequences, FiniteSets, TLC

VARIABLES
    params,                \* r.Params: the loaded template (fixed after Init)
    metrics,               \* r.Prop.Metrics: name -> Metric
    archivedMetrics,       \* r.archivedMetrics: name -> Metric
    counterInfo,           \* r.perfProp.counterInfo: key -> counter
    instanceLabels,        \* r.Prop.InstanceLabels: name -> display
    workloadDetailMetrics, \* package variable workloadDetailMetrics
    mat,                   \* r.Matrix[r.Object]: the stored matrix
    isCacheEmpty,          \* r.perfProp.isCacheEmpty
    metadata,              \* r.Metadata: skips and numPartials of the data phase
    lastCall,              \* the poll operation that returned last, or the fetch PollData waits in
    lastErr,               \* the error it returned: the set of kinds errors.Is matches
    lastFault,             \* history: the error its fetch returned ("" for a response)
    emitted,               \* the matrix map it returned ([some |-> FALSE] for nil)
    cycles,                \* PollData calls that returned without error
    populated,             \* history: curMat as populated by the last PollData
    skipped,               \* history: the <<key, instance>> pairs the last PollData skipped
    lastInput,             \* history: the response the last poll parsed
    lastParent,            \* history: what the parent QoS fetch of the last PollData returned
    parsed,                \* history: the last record handed to both counter parsers, and their answers
    refs,                  \* the addresses of the stored matrix and of the matrix returned last
    inFlight               \* where PollData waits for a response, and what it holds meanwhile

vars == <<params, metrics, archivedMetrics, counterInfo, instanceLabels,
          workloadDetailMetrics, mat, isCacheEmpty, metadata, lastCall, lastErr,
          lastFault, emitted, cycles, populated, skipped, lastInput, lastParent, parsed,
          refs, inFlight>>

----------------------------------------------------------------------------
(* Bounds of the model *)

MaxCycles == 2          \* PollData cycles that complete in one behaviour
MaxSchemaLen == 3       \* counter_schemas entries in one schema response
MaxRecords == 2         \* records in one instance response
MaxCollectors == 2      \* other collectors initialised in the same process

(* Program constants *)

latencyIoReqd == 10
BILLION == 1000000000
timestampMetricName == "timestamp"
arrayKeyToken == "#"

(* The texts array counters are made of: the names of the array counters,  *)
(* the labels of their buckets and the labels of their sub-counters        *)
ArrayCounterNames == {"read_latency_hist"}
BucketLabels == {"", "lt_1ms", "1_to_4ms"}
SubCounterLabels == {"nfs", "cifs"}

(* subLabelSlice[i] + arrayKeyToken + label *)
flatLabel(parent, label) == parent \o arrayKeyToken \o label

ArrayLabels == BucketLabels \cup {flatLabel(b, l) : b \in BucketLabels, l \in SubCounterLabels}

(* name + arrayKeyToken + label: the key of one element of an array counter *)
arrayKey(name, label) == name \o arrayKeyToken \o label

(* name + ".bucket": the key of the bucket metric of a histogram *)
bucketKey(name) == name \o ".bucket"

(* strings.Cut(metricKey, arrayKeyToken): the text before the first "#",   *)
(* the whole key when it has none                                          *)
cutArrayKey(key) ==
    IF \E n \in ArrayCounterNames : \E l \in ArrayLabels : key = arrayKey(n, l)
    THEN CHOOSE n \in ArrayCounterNames : \E l \in ArrayLabels : key = arrayKey(n, l)
    ELSE key

(* strings.Split(label, arrayKeyToken) *)
splitArrayLabel(label) ==
    IF \E b \in BucketLabels : \E l \in SubCounterLabels : label = flatLabel(b, l)
    THEN CHOOSE x \in BucketLabels \X SubCounterLabels : label = flatLabel(x[1], x[2])
    ELSE <<label>>

(* strconv.Itoa of a bucket index *)
Itoa(i) == <<"0", "1", "2", "3">>[i + 1]

(* strings.Contains(strings.ToLower(description), "histogram") *)
HistogramDescriptions == {"Histogram of read latency"}
isHistogramDescription(description) == description \in HistogramDescriptions
qosQuery == "api/cluster/counter/tables/qos"
qosVolumeQuery == "api/cluster/counter/tables/qos_volume"
qosDetailQuery == "api/cluster/counter/tables/qos_detail"
qosDetailVolumeQuery == "api/cluster/counter/tables/qos_detail_volume"
volumeQuery == "api/cluster/counter/tables/volume"

isWorkloadObject(query) == query \in {qosQuery, qosVolumeQuery}
isWorkloadDetailObject(query) == query \in {qosDetailQuery, qosDetailVolumeQuery}

----------------------------------------------------------------------------
(* Finite maps *)

EmptyMap == [k \in {} |-> 0]
Put(f, k, v) == [x \in DOMAIN f \cup {k} |-> IF x = k THEN v ELSE f[x]]
Del(f, k) == [x \in DOMAIN f \ {k} |-> f[x]]
Has(f, k) == k \in DOMAIN f

(* Sequences of distinct elements of S with at most n elements *)
RECURSIVE SeqsUpTo(_, _)
SeqsUpTo(S, n) ==
    IF n = 0 THEN {<<>>}
    ELSE LET shorter == SeqsUpTo(S, n - 1)
         IN shorter \cup {q \in {Append(s, x) : s \in {t \in shorter : Len(t) = n - 1},
                                                 x \in S} :
                              \A i, j \in DOMAIN q : i # j => q[i] # q[j]}

(* Sequences of elements of S with at most n elements *)
RECURSIVE ListsUpTo(_, _)
ListsUpTo(S, n) ==
    IF n = 0 THEN {<<>>}
    ELSE LET shorter == ListsUpTo(S, n - 1)
         IN shorter \cup {Append(s, x) : s \in {t \in shorter : Len(t) = n - 1}, x \in S}

Range(s) == {s[i] : i \in DOMAIN s}

----------------------------------------------------------------------------
(* Values: float64 with the matrix's record bit, kept as exact rationals *)

Abs(x) == IF x < 0 THEN -x ELSE x

RECURSIVE GCD(_, _)
GCD(a, b) == IF b = 0 THEN a ELSE GCD(b, a % b)

Invalid == [ok |-> FALSE, n |-> 0, d |-> 1]

Rat(n, d) ==
    LET g == GCD(Abs(n), Abs(d))
        s == IF d < 0 THEN -1 ELSE 1
    IN [ok |-> TRUE, n |-> (s * n) \div g, d |-> (s * d) \div g]

Num(n) == [ok |-> TRUE, n |-> n, d |-> 1]

(* The text of a counter value: a number, text that is not a number, or   *)
(* the empty text                                                          *)
Parsed(n) == [num |-> TRUE, n |-> n, empty |-> FALSE]
Unparsed == [num |-> FALSE, n |-> 0, empty |-> FALSE]
EmptyText == [num |-> FALSE, n |-> 0, empty |-> TRUE]

RatSub(a, b) == Rat(a.n * b.d - b.n * a.d, a.d * b.d)
RatAdd(a, b) == Rat(a.n * b.d + b.n * a.d, a.d * b.d)
RatDiv(a, b) == Rat(a.n * b.d, a.d * b.n)
RatMul(a, k) == Rat(a.n * k, a.d)
RatLess(a, b) == a.n * b.d < b.n * a.d
RatLeqZero(a) == a.n <= 0

----------------------------------------------------------------------------
(* The matrix (pkg/matrix): instances x metrics, one value per pair.       *)
(*   inst     the instance keys                                            *)
(*   partial  the instances flagged partial                                *)
(*   lab      instance key -> label name -> label value                    *)
(*   met      metric key -> metric attributes                              *)
(*   val      metric key -> instance key -> value                          *)

EmptyMatrix ==
    [inst |-> {}, partial |-> {}, lab |-> EmptyMap, met |-> EmptyMap, val |-> EmptyMap]

NoMatrix == [some |-> FALSE, m |-> EmptyMatrix]
Some(m) == [some |-> TRUE, m |-> m]

(* Metric.Buckets() of a metric no bucket list was set on *)
NoBuckets == [set |-> FALSE, list |-> <<>>]

NewMetricRec(key, display) ==
    [name |-> key, label |-> display, exportable |-> TRUE, property |-> "",
     comment |-> "", array |-> FALSE, histogram |-> FALSE, buckets |-> NoBuckets,
     labels |-> EmptyMap]

GetMetric(m, key) == Has(m.met, key)

(* NewMetricFloat64: idempotent by key; a new metric has no valid value *)
NewMetricFloat64(m, key, display) ==
    IF Has(m.met, key) THEN m
    ELSE [m EXCEPT !.met = Put(m.met, key, NewMetricRec(key, display)),
                   !.val = Put(m.val, key, [i \in m.inst |-> Invalid])]

SetExportable(m, key, b) == [m EXCEPT !.met[key].exportable = b]
SetProperty(m, key, p) == [m EXCEPT !.met[key].property = p]
SetComment(m, key, c) == [m EXCEPT !.met[key].comment = c]
SetMetricLabel(m, key, l, v) == [m EXCEPT !.met[key].labels = Put(@, l, v)]
SetArray(m, key, b) == [m EXCEPT !.met[key].array = b]
SetHistogram(m, key, b) == [m EXCEPT !.met[key].histogram = b]
SetBuckets(m, key, list) == [m EXCEPT !.met[key].buckets = [set |-> TRUE, list |-> list]]

(* NewInstance fails on a duplicate key: the matrix is left as it is *)
NewInstance(m, key) ==
    IF key \in m.inst THEN m
    ELSE [m EXCEPT !.inst = @ \cup {key},
                   !.lab = Put(@, key, EmptyMap),
                   !.val = [k \in DOMAIN m.val |-> Put(m.val[k], key, Invalid)]]

RemoveInstance(m, key) ==
    [m EXCEPT !.inst = @ \ {key},
              !.partial = @ \ {key},
              !.lab = Del(@, key),
              !.val = [k \in DOMAIN m.val |-> Del(m.val[k], key)]]

SetPartial(m, key) == [m EXCEPT !.partial = @ \cup {key}]

SetLabel(m, key, l, v) == [m EXCEPT !.lab[key] = Put(@, l, v)]

SetValue(m, key, i, v) == [m EXCEPT !.val[key][i] = v]

(* AddValueString accumulates onto the value the instance already has *)
AddValue(m, key, i, v) ==
    [m EXCEPT !.val[key][i] = IF @.ok THEN RatAdd(@, v) ELSE v]

(* Clone: a deep copy; with.Data = FALSE leaves every value invalid,       *)
(* with.PartialInstances = FALSE leaves no instance flagged partial        *)
Clone(m, with) ==
    [inst |-> m.inst,
     partial |-> IF with.PartialInstances THEN m.partial ELSE {},
     lab |-> m.lab,
     met |-> m.met,
     val |-> IF with.Data THEN m.val
             ELSE [k \in DOMAIN m.val |-> [i \in m.inst |-> Invalid]]]

Reset(m) == [m EXCEPT !.val = [k \in DOMAIN m.val |-> [i \in m.inst |-> Invalid]]]

(* The arithmetic primitives return the matrix and the skipped instances *)

DeltaValue(cur, prev, key, i) ==
    IF ~ cur.val[key][i].ok THEN Invalid
    ELSE IF ~ (i \in prev.inst /\ Has(prev.val, key)) THEN Invalid
    ELSE IF ~ prev.val[key][i].ok THEN Invalid
    ELSE LET d == RatSub(cur.val[key][i], prev.val[key][i])
         IN IF d.n < 0 THEN Invalid ELSE d

Delta(cur, key, prev) ==
    LET new == [i \in cur.inst |-> DeltaValue(cur, prev, key, i)]
    IN [m |-> [cur EXCEPT !.val[key] = new],
        skips |-> {i \in cur.inst : ~ new[i].ok}]

DivideValue(num, den) ==
    IF ~ num.ok \/ ~ den.ok THEN Invalid
    ELSE IF RatLeqZero(den) THEN Invalid
    ELSE RatDiv(num, den)

Divide(cur, key, denomKey) ==
    LET new == [i \in cur.inst |-> DivideValue(cur.val[key][i], cur.val[denomKey][i])]
    IN [m |-> [cur EXCEPT !.val[key] = new],
        skips |-> {i \in cur.inst : ~ new[i].ok}]

(* DivideWithThreshold: the base's raw delta, taken from the cached raw    *)
(* snapshot and the previous matrix, must reach minOps and time must have  *)
(* elapsed; prev holds raw values only, so no prior cooked value exists    *)
(* and a guarded instance is invalidated                                   *)
ThresholdValue(cur, key, denomKey, minOps, cachedCur, prev, tsKey, i) ==
    LET num == cur.val[key][i]
        den == cur.val[denomKey][i]
        rawDelta == DeltaValue(cachedCur, prev, denomKey, i)
        elapsed == cur.val[tsKey][i]
    IN IF ~ num.ok \/ ~ den.ok \/ ~ rawDelta.ok THEN Invalid
       ELSE IF RatLess(rawDelta, Num(minOps)) THEN Invalid
       ELSE IF ~ elapsed.ok \/ RatLeqZero(elapsed) THEN Invalid
       ELSE IF RatLeqZero(den) THEN Invalid
       ELSE RatDiv(num, den)

DivideWithThreshold(cur, key, denomKey, minOps, cachedCur, prev, tsKey) ==
    LET new == [i \in cur.inst |->
                   ThresholdValue(cur, key, denomKey, minOps, cachedCur, prev, tsKey, i)]
    IN [m |-> [cur EXCEPT !.val[key] = new],
        skips |-> {i \in cur.inst : ~ new[i].ok}]

MultiplyByScalar(cur, key, k) ==
    LET new == [i \in cur.inst |->
                   IF cur.val[key][i].ok THEN RatMul(cur.val[key][i], k) ELSE Invalid]
    IN [m |-> [cur EXCEPT !.val[key] = new],
        skips |-> {i \in cur.inst : ~ new[i].ok}]

----------------------------------------------------------------------------
(* Errors: the set of kinds that errors.Is finds in the returned chain *)

NoErr == {}
ErrConfig == {"ErrConfig"}
ErrNoInstance == {"ErrNoInstance"}
ErrMissingParam == {"ErrMissingParam"}
ErrAPIRequestRejected == {"ErrAPIRequestRejected"}
GoPanic == {"panic"}

RestErrKinds == {"TableNotFound", "APINotFound", "Unauthorized"}

(* handleError: table-not-found and API-not-found become a new             *)
(* ErrAPIRequestRejected that carries only the message of the transport    *)
(* error; any other transport error is wrapped and stays in the chain      *)
handleError(err) ==
    IF err \in {"TableNotFound", "APINotFound"} THEN ErrAPIRequestRejected
    ELSE {err}

(* PollData wraps whatever FetchRestPerfData returned *)
dataFetchError(err) == {err}

----------------------------------------------------------------------------
(* The template (r.Params) and what Init derives from it *)

Display(p, name) == IF Has(p.counters, name) THEN p.counters[name] ELSE ""

GetOverride(p, name) == IF Has(p.override, name) THEN p.override[name] ELSE ""

(* ParseRestCounters: every float counter of the template is an exportable metric *)
TemplateMetrics(p) ==
    [n \in p.floats |->
        [Label |-> p.counters[n], Name |-> n, MetricType |-> "", Exportable |-> TRUE]]

(* The display names of key counters, in ascending order *)
DisplayNames == <<"disk", "node", "volume", "workload">>

(* Instance keys in the order the template declares them *)
DeclaredKeys(p) == p.keys

(* ParseRestCounters, lines 1763-1784: the key counters by display name (a  *)
(* later counter replaces an earlier one of the same display name), taken  *)
(* in ascending order of display name; p.keys is the order of declaration  *)
GetSortedKeys(names) == SelectSeq(DisplayNames, LAMBDA d : d \in names)

InstanceKeys(p) ==
    LET shown(d) == {i \in DOMAIN p.keys : p.counters[p.keys[i]] = d}
        last(d) == p.keys[CHOOSE i \in shown(d) : \A j \in shown(d) : j <= i]
        sorted == GetSortedKeys({d \in Range(DisplayNames) : shown(d) # {}})
    IN [i \in 1..Len(sorted) |-> last(sorted[i])]

(* ParseRestCounters: key and label counters are instance labels *)
TemplateInstanceLabels(p) ==
    [n \in Range(p.keys) \cup p.labels |-> p.counters[n]]

(* A template parameter: absent (or empty), an integer, or other text *)
NoParam == [given |-> FALSE, isInt |-> FALSE, n |-> 0]
IntParam(n) == [given |-> TRUE, isInt |-> TRUE, n |-> n]
TextParam == [given |-> TRUE, isInt |-> FALSE, n |-> 0]

(* loadParamInt: the parameter when strconv.Atoi accepts it, else the default *)
loadParamInt(x, defaultValue) == IF x.given /\ x.isInt THEN x.n ELSE defaultValue

(* InitMatrix: latency_io_reqd of the template, or the default *)
loadLatencyIoReqd(p) == loadParamInt(p.latency_io_reqd, latencyIoReqd)

(* An InitQOS that appends wait_time_latency as well *)
InitQOSAppendWaitTime(global, p) ==
    IF p.refine /\ p.with_service_latency # "false"
    THEN global \o <<"service_time_latency", "wait_time_latency">>
    ELSE global

(* InitQOS: service_time_latency is appended when refine is given and      *)
(* with_service_latency is not "false"                                     *)
InitQOSAppend(global, p) ==
    IF p.refine /\ p.with_service_latency # "false"
    THEN Append(global, "service_time_latency")
    ELSE global

(* The package variable as the first Init of a process leaves it *)
InitWorkloadDetailMetrics(p) == InitQOSAppend(<<"resource_latency">>, p)

(* InitCache: the template must give a query and counters *)
InitCacheReturns(p) ==
    IF p.query = "" THEN ErrMissingParam
    ELSE IF ~ p.has_counters THEN ErrMissingParam
    ELSE NoErr

(* An InitQOS that does not look for qos_labels *)
InitQOSNoCheck(p) == NoErr

(* InitQOS: workload and workload-detail objects must give qos_labels *)
InitQOSReturns(p) ==
    IF (isWorkloadObject(p.query) \/ isWorkloadDetailObject(p.query)) /\ ~ p.has_qos_labels
    THEN ErrMissingParam
    ELSE NoErr

(* Init returns the first error of InitCache, InitMatrix (none), InitQOS *)
InitReturns(p) ==
    IF InitCacheReturns(p) # NoErr THEN InitCacheReturns(p) ELSE InitQOSReturns(p)

(* The parent QoS fetch of getParentOpsCounters: the error rest.Fetch      *)
(* returned ("" for none) and the records; NoParent when it is not made    *)
NoParent == [err |-> "", records |-> <<>>]

(* PollData is not under way: it waits in no fetch *)
NotPolling == [at |-> "idle"]

(* Nothing has been handed to the two counter parsers *)
NoParse == [some |-> FALSE]

(* A matrix in memory: the address of the matrix and the address of the    *)
(* storage of its values; nil has neither                                  *)
Addresses == 1..4
NilRef == [matrix |-> 0, data |-> 0]

(* An allocation returns an address that nothing live has *)
newAddress(live) == CHOOSE a \in Addresses \ live : \A b \in Addresses \ live : a <= b

(* matrix.New: a new matrix with its own storage *)
NewRef(live) ==
    [matrix |-> newAddress({r.matrix : r \in live}),
     data |-> newAddress({r.data : r \in live})]

(* A Clone that copies the matrix and lets the copy use the values of the  *)
(* matrix it copies                                                        *)
CloneRefSharingData(m, live) ==
    [matrix |-> newAddress({r.matrix : r \in live}), data |-> m.data]

(* Clone of the matrix at m: a deep copy, a new matrix with its own storage *)
CloneRef(m, live) == NewRef(live)

(* The state Init leaves: what the steps before the failing one have set *)
InitState(p) ==
    /\ params = p
    /\ metrics = IF InitCacheReturns(p) = NoErr THEN TemplateMetrics(p) ELSE EmptyMap
    /\ archivedMetrics = EmptyMap
    /\ counterInfo = EmptyMap
    /\ instanceLabels = IF InitCacheReturns(p) = NoErr THEN TemplateInstanceLabels(p)
                        ELSE EmptyMap
    /\ workloadDetailMetrics = IF InitReturns(p) = NoErr THEN InitWorkloadDetailMetrics(p)
                               ELSE <<"resource_latency">>
    /\ mat = EmptyMatrix
    /\ isCacheEmpty = (InitCacheReturns(p) = NoErr)
    /\ metadata = [skips |-> 0, numPartials |-> 0]
    /\ lastCall = "Init"
    /\ lastErr = InitReturns(p)
    /\ lastFault = ""
    /\ emitted = NoMatrix
    /\ cycles = 0
    /\ populated = EmptyMatrix
    /\ skipped = {}
    /\ lastInput = <<>>
    /\ lastParent = NoParent
    /\ parsed = NoParse
    /\ refs = [stored |-> NewRef({}), emitted |-> NilRef]
    /\ inFlight = NotPolling

(* The poller schedules the poll phases only of a collector whose Init     *)
(* returned no error                                                       *)
Started == InitReturns(params) = NoErr

(* The poller calls the polls of a collector one after the other: a poll   *)
(* begins when none is under way                                           *)
Idle == inFlight = NotPolling

----------------------------------------------------------------------------
(* PollCounter: the schema phase *)

IsStringType(t) == t = "string"

DenominatorMetric(d) == [Label |-> "", Name |-> d, MetricType |-> "", Exportable |-> FALSE]

(* A restore that leaves the metric in the archive as well *)
RestoreArchivedKeepingArchive(s, name) ==
    IF Has(s.archivedMetrics, name)
    THEN [s EXCEPT !.metrics = Put(s.metrics, name, s.archivedMetrics[name])]
    ELSE s

(* lines 316-323: a metric found in the archive goes back to Prop.Metrics *)
RestoreArchived(s, name) ==
    IF Has(s.archivedMetrics, name)
    THEN [s EXCEPT !.metrics = Put(s.metrics, name, s.archivedMetrics[name]),
                   !.archivedMetrics = Del(s.archivedMetrics, name)]
    ELSE s

(* lines 334-347: the denominator of an active metric becomes a metric     *)
(* that is not exported, unless it is one already                          *)
AddDenominator(s, d, p) ==
    IF d = "" \/ Has(s.metrics, d) THEN s
    ELSE IF isWorkloadDetailObject(p.query) /\ d = "visits" THEN s
    ELSE [s EXCEPT !.metrics = Put(s.metrics, d, DenominatorMetric(d))]

(* lines 303-350, one counter of the first pass over counter_schemas *)
FirstPassStep(s, c, p) ==
    IF ~ c.isObject THEN s
    ELSE LET dataType == IF GetOverride(p, c.name) # "" THEN GetOverride(p, c.name)
                         ELSE c.type
             r == RestoreArchived(s, c.name)
         IN IF ~ Has(r.metrics, c.name) THEN r
            ELSE IF IsStringType(dataType)
            THEN [r EXCEPT !.instanceLabels =
                               IF Has(@, c.name) THEN @
                               ELSE Put(@, c.name, Display(p, c.name)),
                           !.metrics[c.name].Exportable = FALSE]
            ELSE AddDenominator(r, c.denominator, p)

RECURSIVE FirstPass(_, _, _)
FirstPass(s, schema, p) ==
    IF schema = <<>> THEN s
    ELSE FirstPass(FirstPassStep(s, Head(schema), p), Tail(schema), p)

NewCounter(c, p) ==
    [name |-> c.name, description |-> c.description,
     counterType |-> IF GetOverride(p, c.name) # "" THEN GetOverride(p, c.name) ELSE c.type,
     unit |-> c.unit, denominator |-> c.denominator]

(* lines 352-377, one counter of the second pass: s.seen and s.counterInfo *)
SecondPassStep(s, c, active, p) ==
    IF ~ c.isObject \/ ~ Has(active, c.name) THEN s
    ELSE [seen |-> s.seen \cup {c.name},
          counterInfo |-> IF Has(s.counterInfo, c.name) THEN s.counterInfo
                          ELSE Put(s.counterInfo, c.name, NewCounter(c, p))]

RECURSIVE SecondPass(_, _, _, _)
SecondPass(s, schema, active, p) ==
    IF schema = <<>> THEN s
    ELSE SecondPass(SecondPassStep(s, Head(schema), active, p), Tail(schema), active, p)

(* lines 379-388: the metrics the schema did not list move to the archive *)
ArchiveUnseen(s, seen) ==
    LET unseen == DOMAIN s.metrics \ seen
    IN [s EXCEPT !.archivedMetrics =
                     [n \in DOMAIN s.archivedMetrics \cup unseen |->
                         IF n \in unseen THEN s.metrics[n] ELSE s.archivedMetrics[n]],
                 !.metrics = [n \in DOMAIN s.metrics \ unseen |-> s.metrics[n]]]

(* A timestamp metric left with the defaults of a new metric *)
EnsureTimestampDefaults(m) ==
    IF GetMetric(m, timestampMetricName) THEN m
    ELSE NewMetricFloat64(m, timestampMetricName, timestampMetricName)

(* lines 393-400: the artificial timestamp metric *)
EnsureTimestamp(m) ==
    IF GetMetric(m, timestampMetricName) THEN m
    ELSE SetExportable(
             SetProperty(NewMetricFloat64(m, timestampMetricName, timestampMetricName),
                         timestampMetricName, "raw"),
             timestampMetricName, FALSE)

(* x.GetNameS() + wm: the key of a synthesized workload-detail metric *)
layerMetricKey(tag, wm) ==
    CASE tag = "CPU_dblade" /\ wm = "resource_latency" -> "CPU_dbladeresource_latency"
      [] tag = "CPU_dblade" /\ wm = "service_time_latency" -> "CPU_dbladeservice_time_latency"
      [] tag = "CPU_dblade" /\ wm = "wait_time_latency" -> "CPU_dbladewait_time_latency"
      [] tag = "DISK_HDD" /\ wm = "resource_latency" -> "DISK_HDDresource_latency"
      [] tag = "DISK_HDD" /\ wm = "service_time_latency" -> "DISK_HDDservice_time_latency"
      [] tag = "DISK_HDD" /\ wm = "wait_time_latency" -> "DISK_HDDwait_time_latency"
      [] OTHER -> "resource_latency"

(* lines 614-624: every Prop.Metrics entry has a matrix metric *)
RECURSIVE MatrixMetricsFor(_, _, _)
MatrixMetricsFor(m, active, names) ==
    IF names = {} THEN m
    ELSE LET n == CHOOSE x \in names : TRUE
         IN MatrixMetricsFor(
                SetExportable(NewMetricFloat64(m, n, active[n].Label), n,
                              active[n].Exportable),
                active, names \ {n})

OpsCounter ==
    [name |-> "ops", description |-> "", counterType |-> "rate", unit |-> "per_sec",
     denominator |-> ""]

(* lines 660-681, one (resource_map entry, workload-detail metric) pair *)
LayerMetricStep(s, x, wm) ==
    LET key == layerMetricKey(x.tag, wm)
    IN IF s.err # NoErr \/ GetMetric(s.mat, key) THEN s
       ELSE IF ~ Has(s.counterInfo, "service_time") THEN [s EXCEPT !.err = GoPanic]
       ELSE [s EXCEPT
               !.mat = SetMetricLabel(NewMetricFloat64(s.mat, key, wm), key,
                                      "resource", x.resource),
               !.counterInfo = Put(s.counterInfo, key,
                   [name |-> wm, description |-> "",
                    counterType |-> s.counterInfo["service_time"].counterType,
                    unit |-> s.counterInfo["service_time"].unit,
                    denominator |-> "ops"])]

RECURSIVE LayerMetrics(_, _, _, _, _)
LayerMetrics(s, resourceMap, wdm, i, j) ==
    IF i > Len(resourceMap) THEN s
    ELSE IF j > Len(wdm) THEN LayerMetrics(s, resourceMap, wdm, i + 1, 1)
    ELSE LayerMetrics(LayerMetricStep(s, resourceMap[i], wdm[j]), resourceMap, wdm, i, j + 1)

(* processWorkLoadCounter on s = [mat, counterInfo, err] *)
processWorkLoadCounter(s, active, p, wdm) ==
    IF ~ isWorkloadDetailObject(p.query) THEN s
    ELSE LET m1 == MatrixMetricsFor(s.mat, active, DOMAIN active)
         IN IF ~ GetMetric(m1, "service_time") \/ ~ GetMetric(m1, "wait_time")
            THEN [s EXCEPT !.mat = m1, !.err = ErrMissingParam]
            ELSE LET hadOps == GetMetric(m1, "ops")
                     m2 == NewMetricFloat64(m1, "ops", "ops")
                     ci == IF hadOps THEN s.counterInfo
                           ELSE Put(s.counterInfo, "ops", OpsCounter)
                     m3 == SetExportable(SetExportable(m2, "service_time", FALSE),
                                         "wait_time", FALSE)
                 IN IF ~ p.has_resource_map
                    THEN [mat |-> m3, counterInfo |-> ci, err |-> ErrMissingParam]
                    ELSE LayerMetrics([mat |-> m3, counterInfo |-> ci, err |-> NoErr],
                                      p.resource_map, wdm, 1, 1)

(* pollCounter on the first record's counter_schemas: the new schema       *)
(* cache, matrix and returned error                                        *)
pollCounter(schema) ==
    LET s1 == FirstPass([metrics |-> metrics, archivedMetrics |-> archivedMetrics,
                         instanceLabels |-> instanceLabels], schema, params)
        s2 == SecondPass([seen |-> {}, counterInfo |-> counterInfo], schema,
                         s1.metrics, params)
        s3 == ArchiveUnseen(s1, s2.seen)
        w == processWorkLoadCounter(
                 [mat |-> EnsureTimestamp(mat), counterInfo |-> s2.counterInfo,
                  err |-> NoErr],
                 s3.metrics, params, workloadDetailMetrics)
    IN [metrics |-> s3.metrics, archivedMetrics |-> s3.archivedMetrics,
        instanceLabels |-> s3.instanceLabels, counterInfo |-> w.counterInfo,
        mat |-> w.mat, err |-> w.err]

SchemaCache == [metrics |-> metrics, archivedMetrics |-> archivedMetrics,
                counterInfo |-> counterInfo]

(* PollCounter when rest.Fetch fails *)
PollCounterFail(err) ==
    /\ Started
    /\ Idle
    /\ lastCall' = "PollCounter"
    /\ lastErr' = handleError(err)
    /\ lastFault' = err
    /\ emitted' = NoMatrix
    /\ refs' = [refs EXCEPT !.emitted = NilRef]
    /\ lastInput' = <<>>
    /\ UNCHANGED <<params, metrics, archivedMetrics, counterInfo, instanceLabels,
                   workloadDetailMetrics, mat, isCacheEmpty, metadata, cycles,
                   populated, skipped, lastParent, parsed, inFlight>>

(* PollCounter when rest.Fetch returns records *)
PollCounter(records) ==
    /\ Started
    /\ Idle
    /\ lastCall' = "PollCounter"
    /\ lastFault' = ""
    /\ emitted' = NoMatrix
    /\ refs' = [refs EXCEPT !.emitted = NilRef]
    /\ lastInput' = records
    /\ IF records = <<>>
       THEN /\ lastErr' = GoPanic
            /\ UNCHANGED <<metrics, archivedMetrics, counterInfo, instanceLabels, mat>>
       ELSE IF ~ records[1].exists
       THEN /\ lastErr' = ErrConfig
            /\ UNCHANGED <<metrics, archivedMetrics, counterInfo, instanceLabels, mat>>
       ELSE LET r == pollCounter(records[1].counter_schemas)
            IN /\ metrics' = r.metrics
               /\ archivedMetrics' = r.archivedMetrics
               /\ instanceLabels' = r.instanceLabels
               /\ counterInfo' = r.counterInfo
               /\ mat' = r.mat
               /\ lastErr' = r.err
    /\ UNCHANGED <<params, workloadDetailMetrics, isCacheEmpty, metadata, cycles,
                   populated, skipped, lastParent, parsed, inFlight>>

----------------------------------------------------------------------------
(* PollInstance: the instance cache *)

(* parseProperties: the top-level id, or the first property of that name *)
parseProperties(instanceData, property) ==
    IF property = "id"
    THEN IF Has(instanceData.fields, "id")
         THEN [exists |-> TRUE, value |-> instanceData.fields["id"]]
         ELSE [exists |-> FALSE, value |-> <<>>]
    ELSE IF Has(instanceData.props, property)
         THEN [exists |-> TRUE, value |-> instanceData.props[property]]
         ELSE [exists |-> FALSE, value |-> <<>>]

(* instanceData.Get(k): a top-level field of the record *)
GetField(instanceData, k) ==
    IF Has(instanceData.fields, k)
    THEN [exists |-> TRUE, value |-> instanceData.fields[k]]
    ELSE [exists |-> FALSE, value |-> <<>>]

FourDigits == {"0001", "0002"}

\* constituentRegex: any prefix, then two underscores, then four digits
constituentRegexMatch(volume) ==
    /\ Len(volume) >= 2
    /\ volume[Len(volume) - 1] = "__"
    /\ volume[Len(volume)] \in FourDigits

(* An InitQOS that never turns the suppression of constituents on *)
disableConstituentsNever(p) == FALSE

disableConstituents(p) == p.refine /\ p.with_constituents = "false"

(* lines 1470-1476 *)
pollInstanceKeys(p) ==
    IF isWorkloadDetailObject(p.query) THEN <<"name">>
    ELSE IF isWorkloadObject(p.query) THEN <<"uuid">>
    ELSE InstanceKeys(p)

(* lines 1504-1517: the key fields are joined up to the first missing one *)
RECURSIVE pollInstanceKey(_, _, _)
pollInstanceKey(instanceData, keys, p) ==
    IF keys = <<>> THEN <<>>
    ELSE LET value == IF isWorkloadObject(p.query) \/ isWorkloadDetailObject(p.query)
                      THEN GetField(instanceData, Head(keys))
                      ELSE parseProperties(instanceData, Head(keys))
         IN IF value.exists
            THEN value.value \o pollInstanceKey(instanceData, Tail(keys), p)
            ELSE <<>>

(* updateQosLabels: the qos_labels the record carries, for workload objects *)
updateQosLabels(m, qos, key, p) ==
    IF isWorkloadObject(p.query) \/ isWorkloadDetailObject(p.query)
    THEN [m EXCEPT !.lab[key] =
             [l \in DOMAIN @ \cup {p.qos_labels[x] : x \in DOMAIN p.qos_labels \cap DOMAIN qos.fields} |->
                 IF \E x \in DOMAIN p.qos_labels \cap DOMAIN qos.fields : p.qos_labels[x] = l
                 THEN qos.fields[CHOOSE x \in DOMAIN p.qos_labels \cap DOMAIN qos.fields :
                                     p.qos_labels[x] = l]
                 ELSE @[l]]]
    ELSE m

(* lines 1482-1529, one record: s = [mat, old] *)
pollInstanceStep(s, instanceData, p) ==
    IF ~ instanceData.isObject THEN s
    ELSE IF /\ isWorkloadObject(p.query) \/ isWorkloadDetailObject(p.query)
            /\ disableConstituents(p)
            /\ constituentRegexMatch(GetField(instanceData, "volume").value)
    THEN s
    ELSE LET instanceKey == pollInstanceKey(instanceData, pollInstanceKeys(p), p)
         IN IF instanceKey \in s.old
            THEN [mat |-> updateQosLabels(s.mat, instanceData, instanceKey, p),
                  old |-> s.old \ {instanceKey}]
            ELSE IF instanceKey \in s.mat.inst
            THEN s
            ELSE [mat |-> updateQosLabels(NewInstance(s.mat, instanceKey), instanceData,
                                          instanceKey, p),
                  old |-> s.old]

RECURSIVE pollInstanceLoop(_, _, _)
pollInstanceLoop(s, records, p) ==
    IF records = <<>> THEN s
    ELSE pollInstanceLoop(pollInstanceStep(s, Head(records), p), Tail(records), p)

(* lines 1531-1534: the instances no record named are removed *)
RECURSIVE RemoveInstances(_, _)
RemoveInstances(m, old) ==
    IF old = {} THEN m
    ELSE LET k == CHOOSE x \in old : TRUE
         IN RemoveInstances(RemoveInstance(m, k), old \ {k})

(* lines 1462-1553 for a response with records *)
pollInstance(records) ==
    LET s == pollInstanceLoop([mat |-> mat, old |-> mat.inst], records, params)
        m == RemoveInstances(s.mat, s.old)
    IN [mat |-> m, err |-> IF m.inst = {} THEN ErrNoInstance ELSE NoErr]

(* PollInstance when rest.Fetch fails *)
PollInstanceFail(err) ==
    /\ Started
    /\ Idle
    /\ lastCall' = "PollInstance"
    /\ lastErr' = handleError(err)
    /\ lastFault' = err
    /\ emitted' = NoMatrix
    /\ refs' = [refs EXCEPT !.emitted = NilRef]
    /\ lastInput' = <<>>
    /\ UNCHANGED <<params, metrics, archivedMetrics, counterInfo, instanceLabels,
                   workloadDetailMetrics, mat, isCacheEmpty, metadata, cycles,
                   populated, skipped, lastParent, parsed, inFlight>>

(* PollInstance when rest.Fetch returns records *)
PollInstance(records) ==
    /\ Started
    /\ Idle
    /\ lastCall' = "PollInstance"
    /\ lastFault' = ""
    /\ emitted' = NoMatrix
    /\ refs' = [refs EXCEPT !.emitted = NilRef]
    /\ lastInput' = records
    /\ IF records = <<>>
       THEN /\ lastErr' = ErrNoInstance
            /\ UNCHANGED mat
       ELSE LET r == pollInstance(records)
            IN /\ mat' = r.mat
               /\ lastErr' = r.err
    /\ UNCHANGED <<params, metrics, archivedMetrics, counterInfo, instanceLabels,
                   workloadDetailMetrics, isCacheEmpty, metadata, cycles,
                   populated, skipped, lastParent, parsed, inFlight>>

----------------------------------------------------------------------------
(* PollData: parsing one record *)

(* parseProps: the top-level id (empty when the record has none), then the *)
(* record's properties over it                                             *)
parseProps(instanceData) ==
    IF Has(instanceData.props, "id") THEN instanceData.props
    ELSE Put(instanceData.props, "id",
             IF Has(instanceData.fields, "id") THEN instanceData.fields["id"] ELSE <<>>)

(* lines 826-840: every key field the record has is joined, a missing one  *)
(* is passed over                                                          *)
RECURSIVE pollDataKey(_, _)
pollDataKey(props, keys) ==
    IF keys = <<>> THEN <<>>
    ELSE (IF Has(props, Head(keys)) THEN props[Head(keys)] ELSE <<>>)
             \o pollDataKey(props, Tail(keys))

(* util.ArrayMetricToString and strings.Split(_, ","): the elements of a   *)
(* JSON array; the text of an empty or absent array splits into one empty *)
(* element                                                                 *)
splitArray(elements, empty) == IF elements = <<>> THEN <<empty>> ELSE elements

(* A field of a JSON object, or the given value when the object lacks it *)
Field(obj, name, absent) == IF name \in DOMAIN obj THEN obj[name] ELSE absent

(* lines 485-486 and 553-557, value != "": the counter has a value and its *)
(* text is not empty                                                       *)
hasValue(each) == "value" \in DOMAIN each /\ each.value # EmptyText

(* lines 512-525, one sub-counter: its values paired with the first parent *)
(* labels; a sub-counter with more values than parent labels ends the loop *)
subCounterStep(s, subCounter, subLabelSlice) ==
    LET ms == splitArray(Field(subCounter, "values", <<>>), EmptyText)
    IN IF s.stopped THEN s
       ELSE IF Len(ms) > Len(subLabelSlice) THEN [s EXCEPT !.stopped = TRUE]
       ELSE [s EXCEPT
               !.finalLabels = @ \o [i \in 1..Len(ms) |->
                                       flatLabel(subLabelSlice[i], subCounter.label)],
               !.finalValues = @ \o ms]

RECURSIVE subCounterLoop(_, _, _)
subCounterLoop(s, subCounters, subLabelSlice) ==
    IF subCounters = <<>> THEN s
    ELSE subCounterLoop(subCounterStep(s, Head(subCounters), subLabelSlice),
                        Tail(subCounters), subLabelSlice)

(* lines 502-535: the flattened labels and values of the sub-counters *)
subCounters(each) ==
    subCounterLoop([finalLabels |-> <<>>, finalValues |-> <<>>, stopped |-> FALSE],
                   each.counters, splitArray(Field(each, "labels", <<>>), ""))

(* lines 474-535, one counter of a record, s = [found, numSeen]: a scalar, *)
(* an array or a list of sub-counters; value and label of an array are the *)
(* joined elements; the scan stops once numSeen reaches the number of      *)
(* requested metrics                                                       *)
parseMetricResponsesStep(s, each, wanted) ==
    IF s.numSeen = Cardinality(wanted) THEN s
    ELSE IF each.name \notin wanted THEN s
    ELSE IF hasValue(each)
    THEN [found |-> Put(s.found, each.name,
                        [value |-> each.value, label |-> "", isArray |-> FALSE]),
          numSeen |-> s.numSeen + 1]
    ELSE IF "values" \in DOMAIN each
    THEN [found |-> Put(s.found, each.name,
                        [value |-> each.values, label |-> Field(each, "labels", <<>>),
                         isArray |-> TRUE]),
          numSeen |-> s.numSeen + 1]
    ELSE IF "counters" \notin DOMAIN each THEN s
    ELSE LET sub == subCounters(each)
         IN IF Len(sub.finalLabels) = Len(sub.finalValues)
            THEN [s EXCEPT !.found = Put(s.found, each.name,
                                         [value |-> sub.finalValues,
                                          label |-> sub.finalLabels, isArray |-> TRUE])]
            ELSE s

RECURSIVE parseMetricResponsesLoop(_, _, _)
parseMetricResponsesLoop(s, counters, wanted) ==
    IF counters = <<>> THEN s
    ELSE parseMetricResponsesLoop(parseMetricResponsesStep(s, Head(counters), wanted),
                                  Tail(counters), wanted)

parseMetricResponses(instanceData, wanted) ==
    parseMetricResponsesLoop([found |-> EmptyMap, numSeen |-> 0],
                             instanceData.counters, wanted).found

(* lines 543-597, the answer for a counter the record lacks, and for a     *)
(* list of sub-counters whose values are not as many as the parent labels  *)
emptyResponse ==
    [exists |-> FALSE, value |-> EmptyText, label |-> "",
     isArray |-> FALSE, panic |-> FALSE]

(* lines 555-556, the paths counters.#.label and counters.#.values: the    *)
(* field of every sub-counter that has it, in order; a sub-counter without *)
(* the field adds no entry                                                 *)
RECURSIVE subFields(_, _)
subFields(subs, name) ==
    IF subs = <<>> THEN <<>>
    ELSE (IF name \in DOMAIN Head(subs) THEN <<Head(subs)[name]>> ELSE <<>>)
             \o subFields(Tail(subs), name)

(* lines 577-589, the i-th entry v of counters.#.values, s = [finalLabels, *)
(* finalValues, vLen, panic]: its label is the i-th entry of               *)
(* counters.#.label, and there being none is a run-time panic; vLen counts *)
(* the values of all the entries so far, and each value is labelled        *)
(* label#subLabelSlice[vLen]; the index runs past the parent labels as     *)
(* soon as there are more values than labels, which is a run-time panic    *)
(* (so the test vLen > len(subLabelSlice) after the inner loop never sees  *)
(* it true)                                                                *)
subMetricStep(s, ls, v, i, subLabelSlice) ==
    LET ms == splitArray(v, EmptyText)
    IN IF s.panic THEN s
       ELSE IF i > Len(ls) THEN [s EXCEPT !.panic = TRUE]
       ELSE IF s.vLen + Len(ms) > Len(subLabelSlice) THEN [s EXCEPT !.panic = TRUE]
       ELSE [s EXCEPT
               !.finalLabels = @ \o [k \in 1..Len(ms) |->
                                       flatLabel(ls[i], subLabelSlice[s.vLen + k])],
               !.finalValues = @ \o ms,
               !.vLen = @ + Len(ms)]

RECURSIVE subMetricLoop(_, _, _, _, _)
subMetricLoop(s, ls, vs, i, subLabelSlice) ==
    IF i > Len(vs) THEN s
    ELSE subMetricLoop(subMetricStep(s, ls, vs[i], i, subLabelSlice),
                       ls, vs, i + 1, subLabelSlice)

(* lines 568-592: the labels and values of the sub-counters of one         *)
(* counter, ranging over the entries of counters.#.values                  *)
subMetrics(each) ==
    subMetricLoop([finalLabels |-> <<>>, finalValues |-> <<>>, vLen |-> 0,
                   panic |-> FALSE],
                  subFields(each.counters, "label"), subFields(each.counters, "values"),
                  1, splitArray(Field(each, "labels", <<>>), ""))

(* lines 543-597, parseMetricResponse: the first counter of that name (the *)
(* path counters.#(name=metric) matches the first), as a scalar, an array  *)
(* or a list of sub-counters                                               *)
parseMetricResponse(instanceData, metric) ==
    LET idx == {i \in DOMAIN instanceData.counters : instanceData.counters[i].name = metric}
    IN IF idx = {} THEN emptyResponse
       ELSE LET each == instanceData.counters[CHOOSE i \in idx : \A j \in idx : i <= j]
            IN IF hasValue(each)
               THEN [emptyResponse EXCEPT !.exists = TRUE, !.value = each.value]
               ELSE IF "values" \in DOMAIN each
               THEN [exists |-> TRUE, value |-> each.values,
                     label |-> Field(each, "labels", <<>>), isArray |-> TRUE,
                     panic |-> FALSE]
               ELSE IF "counters" \notin DOMAIN each THEN emptyResponse
               ELSE LET sub == subMetrics(each)
                    IN IF sub.panic THEN [emptyResponse EXCEPT !.panic = TRUE]
                       ELSE IF sub.vLen = Len(splitArray(Field(each, "labels", <<>>), ""))
                       THEN [exists |-> TRUE, value |-> sub.finalValues,
                             label |-> sub.finalLabels, isArray |-> TRUE,
                             panic |-> FALSE]
                       ELSE emptyResponse

(* A getMetric that makes the metric in curMat alone *)
getMetricCurOnly(s, key, display) ==
    [s EXCEPT !.cur = NewMetricFloat64(s.cur, key, display)]

(* getMetric: the metric exists in curMat and in prevMat afterwards *)
getMetric(s, key, display) ==
    [s EXCEPT !.cur = NewMetricFloat64(s.cur, key, display),
              !.prev = NewMetricFloat64(s.prev, key, display)]

(* f.value == "": the response of a counter the record lacks, and the     *)
(* joined elements of an array that has none, or the one element that is  *)
(* the empty text; any other text, a number or not, is not empty          *)
valueIsEmpty(f) ==
    IF f.isArray THEN f.value \in {<<>>, <<EmptyText>>} ELSE ~ f.exists

(* f.value as the text of a label: the value, or the joined elements *)
valueText(f) == IF f.isArray THEN f.value ELSE <<f.value>>

(* f.value as SetValueString reads it: a float when it is the text of one; *)
(* the joined elements of an array are, when the array has one element     *)
valueFloat(f) ==
    IF ~ f.isArray THEN f.value
    ELSE IF Len(f.value) = 1 THEN f.value[1]
    ELSE IF f.value = <<>> THEN EmptyText ELSE Unparsed

(* lines 892-922: the instance labels of one record; a label the           *)
(* properties lack is read from the counter of that name, unless its value *)
(* is empty; a panic of parseMetricResponse ends the poll                  *)
RECURSIVE setInstanceLabels(_, _, _, _, _)
setInstanceLabels(s, instanceData, instanceKey, labels, names) ==
    IF names = {} \/ s.panic THEN s
    ELSE LET l == CHOOSE x \in names : TRUE
             props == parseProps(instanceData)
             f == parseMetricResponse(instanceData, l)
             s1 == IF Has(props, l)
                   THEN [s EXCEPT !.cur = SetLabel(s.cur, instanceKey, labels[l], props[l]),
                                  !.count = @ + 1]
                   ELSE IF f.panic THEN [s EXCEPT !.panic = TRUE]
                   ELSE IF ~ valueIsEmpty(f)
                   THEN [s EXCEPT !.cur = SetLabel(s.cur, instanceKey, labels[l],
                                                   valueText(f)),
                                  !.count = @ + 1]
                   ELSE s
         IN setInstanceLabels(s1, instanceData, instanceKey, labels, names \ {l})

(* lines 1042-1067: a scalar counter of one record; a value that does not  *)
(* parse as a float is logged and left unset                               *)
setScalarMetric(s, instanceKey, name, metric, f) ==
    LET s1 == IF GetMetric(s.cur, name) THEN s ELSE getMetric(s, name, metric.Label)
        s2 == [s1 EXCEPT !.cur = SetExportable(s1.cur, name, metric.Exportable)]
        s3 == IF f.value.num
              THEN [s2 EXCEPT !.cur = SetValue(s2.cur, name, instanceKey, Num(f.value.n))]
              ELSE s2
    IN [s3 EXCEPT !.count = @ + 1]

(* lines 1003-1038, one element of an array counter: its metric is made   *)
(* and flagged when curMat lacks it, then given the element's value; a     *)
(* value that is not a number is logged and not counted                    *)
setArrayElement(s, instanceKey, name, metric, labels, values, i, isHistogram) ==
    LET label == labels[i]
        k == arrayKey(name, label)
        x == splitArrayLabel(label)
        s1 == getMetric(s, k, metric.Label)
        m1 == IF Len(x) = 2
              THEN SetMetricLabel(SetMetricLabel(s1.cur, k, "metric", x[1]), k,
                                  "submetric", x[2])
              ELSE SetMetricLabel(s1.cur, k, "metric", label)
        m2 == SetExportable(SetArray(m1, k, TRUE), k, metric.Exportable)
        m3 == IF isHistogram
              THEN SetHistogram(
                       SetMetricLabel(SetMetricLabel(m2, k, "comment", Itoa(i - 1)), k,
                                      "bucket", bucketKey(name)),
                       k, TRUE)
              ELSE m2
        s2 == IF GetMetric(s.cur, k) THEN s ELSE [s1 EXCEPT !.cur = m3]
    IN IF values[i].num
       THEN [s2 EXCEPT !.cur = SetValue(s2.cur, k, instanceKey, Num(values[i].n)),
                       !.count = @ + 1]
       ELSE s2

RECURSIVE setArrayElements(_, _, _, _, _, _, _, _)
setArrayElements(s, instanceKey, name, metric, labels, values, i, isHistogram) ==
    IF i > Len(labels) THEN s
    ELSE setArrayElements(
             setArrayElement(s, instanceKey, name, metric, labels, values, i, isHistogram),
             instanceKey, name, metric, labels, values, i + 1, isHistogram)

(* A histogram whose bucket metric is given no bucket list *)
setHistogramBucketNoList(s, name, metric, labels) == getMetric(s, bucketKey(name), metric.Label)

(* lines 989-999: the bucket metric of a histogram, with the ordered labels *)
setHistogramBucket(s, name, metric, labels) ==
    LET key == bucketKey(name)
        s1 == getMetric(s, key, metric.Label)
    IN [s1 EXCEPT !.cur = SetBuckets(SetExportable(SetArray(s1.cur, key, TRUE), key,
                                                   metric.Exportable),
                                     key, labels)]

(* line 976: as many labels as values *)
arrayLengthsAgree(labels, values) == Len(labels) = Len(values)

(* lines 972-1040: an array counter of one record; when its labels and     *)
(* values differ in number it is logged and passed over                    *)
setArrayMetric(s, instanceKey, name, metric, f) ==
    LET labels == splitArray(f.label, "")
        values == splitArray(f.value, EmptyText)
        isHistogram == /\ Len(labels) > 0
                       /\ isHistogramDescription(counterInfo[name].description)
    IN IF ~ arrayLengthsAgree(labels, values) THEN s
       ELSE setArrayElements(
                IF isHistogram THEN setHistogramBucket(s, name, metric, labels) ELSE s,
                instanceKey, name, metric, labels, values, 1, isHistogram)

(* strings.Index(instanceKey, tok): 0 when the key has no such token *)
IndexOf(key, tok) ==
    IF \E i \in DOMAIN key : key[i] = tok
    THEN CHOOSE i \in DOMAIN key : key[i] = tok /\ \A j \in 1..(i - 1) : key[j] # tok
    ELSE 0

(* lines 849-860: the key after the first ":", cut at its first ".": the   *)
(* workload before it and the layer after it                               *)
splitLayer(instanceKey) ==
    LET rest == SubSeq(instanceKey, IndexOf(instanceKey, ":") + 1, Len(instanceKey))
        dot == IndexOf(rest, ".")
    IN [found |-> dot # 0,
        before |-> SubSeq(rest, 1, dot - 1),
        after |-> SubSeq(rest, dot + 1, Len(rest))]

(* layer + wm: the key of the metric a record of that layer feeds *)
layerKey(layer, wm) == layerMetricKey(IF Len(layer) = 1 THEN layer[1] ELSE "", wm)

(* lines 862-867: every workload-detail metric of the layer is in curMat *)
layerKnown(m, layer, wdm) ==
    \A j \in DOMAIN wdm : GetMetric(m, layerKey(layer, wdm[j]))

(* A value assignment that feeds resource_latency from service_time alone *)
setLayerMetricServiceOnly(s, instanceKey, layer, wm, name, f) ==
    IF wm = "resource_latency" /\ name = "service_time" /\ f.value.num
    THEN [s EXCEPT !.cur = AddValue(s.cur, layerKey(layer, wm), instanceKey,
                                    Num(f.value.n)),
                   !.count = @ + 1]
    ELSE s

(* lines 931-969, one workload-detail metric: service_time and wait_time   *)
(* are added into resource_latency, and each is set on its own latency     *)
(* metric; a value that does not parse is logged and not counted           *)
setLayerMetric(s, instanceKey, layer, wm, name, f) ==
    LET key == layerKey(layer, wm)
    IN IF wm = "resource_latency" /\ name \in {"wait_time", "service_time"}
       THEN IF f.value.num
            THEN [s EXCEPT !.cur = AddValue(s.cur, key, instanceKey, Num(f.value.n)),
                           !.count = @ + 1]
            ELSE s
       ELSE IF \/ wm = "service_time_latency" /\ name = "service_time"
               \/ wm = "wait_time_latency" /\ name = "wait_time"
       THEN IF f.value.num
            THEN [s EXCEPT !.cur = SetValue(s.cur, key, instanceKey, Num(f.value.n)),
                           !.count = @ + 1]
            ELSE s
       ELSE s

RECURSIVE setLayerMetrics(_, _, _, _, _, _)
setLayerMetrics(s, instanceKey, layer, wdm, name, f) ==
    IF wdm = <<>> THEN s
    ELSE setLayerMetrics(setLayerMetric(s, instanceKey, layer, Head(wdm), name, f),
                         instanceKey, layer, Tail(wdm), name, f)

(* lines 926-1072: a counter of a workload-detail object feeds the layer's *)
(* metrics and is itself given no value (line 970)                         *)
RECURSIVE setMetrics(_, _, _, _, _, _, _, _)
setMetrics(s, instanceKey, active, responses, names, p, layer, wdm) ==
    IF names = {} THEN s
    ELSE LET n == CHOOSE x \in names : TRUE
             s1 == IF ~ Has(responses, n) THEN s
                   ELSE IF isWorkloadDetailObject(p.query)
                   THEN setLayerMetrics(s, instanceKey, layer, wdm, n, responses[n])
                   ELSE IF responses[n].isArray
                   THEN setArrayMetric(s, instanceKey, n, active[n], responses[n])
                   ELSE setScalarMetric(s, instanceKey, n, active[n], responses[n])
         IN setMetrics(s1, instanceKey, active, responses, names \ {n}, p, layer, wdm)

(* lines 810-1078, one record: s = [cur, prev, count, numPartials, panic]; *)
(* nothing more is done once parseMetricResponse has panicked              *)
pollDataRecord(s, instanceData, ts, p, active, labels, wdm) ==
    IF s.panic THEN s
    ELSE IF ~ instanceData.isObject THEN s
    ELSE LET rawKey == pollDataKey(parseProps(instanceData), InstanceKeys(p))
             detail == isWorkloadDetailObject(p.query)
             cut == splitLayer(rawKey)
             instanceKey == IF detail THEN cut.before ELSE rawKey
             layer == IF detail THEN cut.after ELSE <<>>
         IN IF InstanceKeys(p) # <<>> /\ rawKey = <<>> THEN s
            ELSE IF detail /\ ~ cut.found THEN s
            ELSE IF detail /\ ~ layerKnown(s.cur, layer, wdm) THEN s
            ELSE IF p.only_cluster_instance # "true" /\ instanceKey = <<>> THEN s
            ELSE IF instanceKey \notin s.cur.inst THEN s
            ELSE LET s1 == IF instanceData.complete = "false"
                           THEN [s EXCEPT !.cur = SetPartial(s.cur, instanceKey),
                                          !.numPartials = @ + 1]
                           ELSE s
                     s2 == setInstanceLabels(s1, instanceData, instanceKey, labels,
                                             DOMAIN labels)
                     s3 == setMetrics(s2, instanceKey, active,
                                      parseMetricResponses(instanceData, DOMAIN active),
                                      DOMAIN active, p, layer, wdm)
                 IN IF s2.panic THEN s2
                    ELSE [s3 EXCEPT !.cur = SetValue(s3.cur, timestampMetricName,
                                                     instanceKey, ts)]

RECURSIVE pollDataRecords(_, _, _, _, _, _, _)
pollDataRecords(s, records, ts, p, active, labels, wdm) ==
    IF records = <<>> THEN s
    ELSE pollDataRecords(pollDataRecord(s, Head(records), ts, p, active, labels, wdm),
                         Tail(records), ts, p, active, labels, wdm)

(* lines 800-809: ts is the batch's timestamp, or the one of the batch     *)
(* before it (the poll's start time for the first) when it has none        *)
RECURSIVE pollDataBatches(_, _, _, _, _, _, _)
pollDataBatches(s, perfRecords, ts, p, active, labels, wdm) ==
    IF perfRecords = <<>> THEN s
    ELSE LET t == Head(perfRecords).Timestamp
             ts1 == IF t # 0 THEN Rat(t, BILLION) ELSE ts
         IN pollDataBatches(
                pollDataRecords(s, Head(perfRecords).Records, ts1, p, active, labels, wdm),
                Tail(perfRecords), ts1, p, active, labels, wdm)

ShapeOnly == [Data |-> FALSE, Metrics |-> TRUE, Instances |-> TRUE,
              ExportInstances |-> TRUE, PartialInstances |-> FALSE]
WithData == [Data |-> TRUE, Metrics |-> TRUE, Instances |-> TRUE,
             ExportInstances |-> TRUE, PartialInstances |-> TRUE]

(* A data poll whose curMat starts without the cached instances *)
populateWithoutInstances(startTime, perfRecords) ==
    pollDataBatches(
        [cur |-> [mat EXCEPT !.inst = {}, !.partial = {}, !.lab = EmptyMap,
                             !.val = [k \in DOMAIN mat.val |-> EmptyMap]],
         prev |-> mat, count |-> 0, numPartials |-> 0, panic |-> FALSE],
        perfRecords, Rat(startTime, BILLION), params, metrics, instanceLabels,
        workloadDetailMetrics)

(* lines 783-1079: curMat (and prevMat) once every record is parsed *)
populate(startTime, perfRecords) ==
    pollDataBatches(
        [cur |-> Reset(Clone(mat, ShapeOnly)), prev |-> mat, count |-> 0,
         numPartials |-> 0, panic |-> FALSE],
        perfRecords, Rat(startTime, BILLION), params, metrics, instanceLabels,
        workloadDetailMetrics)

----------------------------------------------------------------------------
(* PollData: the ops counter of the parent object *)

(* lines 1339-1369, one record of the parent response, d = [data, err]:    *)
(* the ops value of the instance the record names, when the matrix has     *)
(* that instance and the value is not empty; a value that is no float is   *)
(* logged and not set; a panic of parseMetricResponse ends the loop        *)
parentOpsStep(d, instanceData) ==
    IF d.err # NoErr THEN d
    ELSE IF ~ instanceData.isObject THEN d
    ELSE LET value == parseProperties(instanceData, "name")
             f == parseMetricResponse(instanceData, "ops")
         IN IF ~ value.exists THEN d
            ELSE IF value.value \notin d.data.inst THEN d
            ELSE IF f.panic THEN [d EXCEPT !.err = GoPanic]
            ELSE IF ~ valueIsEmpty(f) /\ valueFloat(f).num
            THEN [d EXCEPT !.data = SetValue(d.data, "ops", value.value,
                                             Num(valueFloat(f).n))]
            ELSE d

RECURSIVE parentOpsLoop(_, _)
parentOpsLoop(d, records) ==
    IF records = <<>> THEN d
    ELSE parentOpsLoop(parentOpsStep(d, Head(records)), Tail(records))

(* lines 1292-1372: the matrix with the parent's ops values, or the error *)
getParentOpsCounters(data, parent) ==
    IF ~ GetMetric(data, "ops") THEN [data |-> data, err |-> ErrMissingParam]
    ELSE IF parent.err # "" THEN [data |-> data, err |-> {parent.err}]
    ELSE IF parent.records = <<>> THEN [data |-> data, err |-> ErrNoInstance]
    ELSE parentOpsLoop([data |-> data, err |-> NoErr], parent.records)

(* lines 1081-1086: only workload-detail objects fetch the parent's ops *)
withParentOps(data, parent, p) ==
    IF isWorkloadDetailObject(p.query) THEN getParentOpsCounters(data, parent)
    ELSE [data |-> data, err |-> NoErr]

----------------------------------------------------------------------------
(* PollData: post-processing *)

(* strings.HasSuffix(metric.GetName(), "latency") *)
LatencyNames == {"read_latency", "avg_latency", "busy_latency",
                 "CPU_dbladeresource_latency", "CPU_dbladeservice_time_latency",
                 "CPU_dbladewait_time_latency", "DISK_HDDresource_latency",
                 "DISK_HDDservice_time_latency", "DISK_HDDwait_time_latency"}
HasSuffixLatency(name) == name \in LatencyNames

(* The counter of a metric key: for an array metric, the key up to its     *)
(* first "#"                                                               *)
counterName(m, key) == IF m.met[key].array THEN cutArrayKey(key) ELSE key

(* counterLookup: nil when counterInfo has no entry *)
counterLookup(m, key, ci) ==
    IF Has(ci, counterName(m, key)) THEN {ci[counterName(m, key)]} ELSE {}

(* lines 1118-1135: the metrics that are post-processed, by group *)
PostProcessed(m, ci) ==
    {k \in DOMAIN m.met : /\ m.met[k].name # timestampMetricName
                          /\ ~ m.met[k].buckets.set
                          /\ counterLookup(m, k, ci) # {}}
NonDenominatorKeys(m, ci) ==
    {k \in PostProcessed(m, ci) : ci[counterName(m, k)].denominator = ""}
DenominatorKeys(m, ci) ==
    {k \in PostProcessed(m, ci) : ci[counterName(m, k)].denominator # ""}

(* Go ranges over the metric map in no fixed order: any order within a     *)
(* group, the metrics that need no base counter first                      *)
Perms(S) == {q \in SeqsUpTo(S, Cardinality(S)) : Len(q) = Cardinality(S)}
OrderedKeys(m, ci) ==
    {a \o b : a \in Perms(NonDenominatorKeys(m, ci)), b \in Perms(DenominatorKeys(m, ci))}

Pairs(key, insts) == {<<key, i>> : i \in insts}

(* Storing curMat itself, after it was cooked in place *)
StoredCooked(cachedData, cooked) == cooked

(* line 1281 after line 1110: what is stored for the next poll *)
StoredForNextPoll(cachedData, cooked) == cachedData

(* A division by the base counter that never applies the threshold *)
DivideByBasePlain(m, key, counter, minOps, cachedData, prev) ==
    Divide(m, key, counter.denominator)

(* lines 1216-1222: division by the base counter *)
DivideByBase(m, key, counter, minOps, cachedData, prev) ==
    IF HasSuffixLatency(m.met[key].name)
    THEN DivideWithThreshold(m, key, counter.denominator, minOps, cachedData, prev,
                             timestampMetricName)
    ELSE Divide(m, key, counter.denominator)

(* lines 1235-1242: a percent is the average times 100 *)
PercentScale == 100

(* lines 1152-1249, one metric: s = [m, skips, pairs] *)
cookStep(s, key, ci, minOps, cachedData, prev) ==
    LET counter == ci[counterName(s.m, key)]
        property == counter.counterType
        m0 == SetComment(SetProperty(s.m, key, property), key, counter.denominator)
        s0 == [s EXCEPT !.m = m0]
    IN IF property \in {"raw", "string"} THEN s0
       ELSE LET d == Delta(m0, key, prev)
                s1 == [m |-> d.m, skips |-> s.skips + Cardinality(d.skips),
                       pairs |-> s.pairs \cup Pairs(key, d.skips)]
            IN IF property \in {"delta", "rate"} THEN s1
               ELSE IF ~ GetMetric(d.m, counter.denominator) THEN s1
               ELSE IF property \in {"average", "percent"}
               THEN LET q == DivideByBase(d.m, key, counter, minOps, cachedData, prev)
                        s2 == [m |-> q.m, skips |-> s1.skips + Cardinality(q.skips),
                               pairs |-> s1.pairs \cup Pairs(key, q.skips)]
                    IN IF property = "average" THEN s2
                       ELSE LET x == MultiplyByScalar(q.m, key, PercentScale)
                            IN [m |-> x.m, skips |-> s2.skips + Cardinality(x.skips),
                                pairs |-> s2.pairs \cup Pairs(key, x.skips)]
               ELSE s1

RECURSIVE cookLoop(_, _, _, _, _, _)
cookLoop(s, order, ci, minOps, cachedData, prev) ==
    IF order = <<>> THEN s
    ELSE cookLoop(cookStep(s, Head(order), ci, minOps, cachedData, prev), Tail(order),
                  ci, minOps, cachedData, prev)

(* A second pass that leaves the delta of a rate as it is *)
rateStepNoDivide(s, key, ci) == s

(* lines 1252-1273, one metric of the second pass: rates *)
rateStep(s, key, ci) ==
    IF ci[counterName(s.m, key)].counterType = "rate"
    THEN LET q == Divide(s.m, key, timestampMetricName)
         IN [m |-> q.m, skips |-> s.skips + Cardinality(q.skips),
             pairs |-> s.pairs \cup Pairs(key, q.skips)]
    ELSE s

RECURSIVE rateLoop(_, _, _)
rateLoop(s, order, ci) ==
    IF order = <<>> THEN s
    ELSE rateLoop(rateStep(s, Head(order), ci), Tail(order), ci)

(* A post-processing that reports the skips of the rate pass alone *)
postProcessRateSkipsOnly(cur, prev, ci, minOps, order) ==
    LET cachedData == Clone(cur, WithData)
        t == Delta(cur, timestampMetricName, prev).m
        a == cookLoop([m |-> t, skips |-> 0, pairs |-> {}], order, ci, minOps,
                      cachedData, prev)
        b == rateLoop([a EXCEPT !.skips = 0], order, ci)
    IN [cooked |-> b.m, cachedData |-> cachedData, skips |-> b.skips, pairs |-> b.pairs]

(* lines 1107-1278: the cooked matrix, the skips and the skipped pairs *)
postProcess(cur, prev, ci, minOps, order) ==
    LET cachedData == Clone(cur, WithData)
        t == Delta(cur, timestampMetricName, prev).m
        a == cookLoop([m |-> t, skips |-> 0, pairs |-> {}], order, ci, minOps,
                      cachedData, prev)
        b == rateLoop(a, order, ci)
    IN [cooked |-> b.m, cachedData |-> cachedData, skips |-> b.skips, pairs |-> b.pairs]

----------------------------------------------------------------------------
(* PollData: the data phase *)

(* A return of PollData that forgets the counters of the schema *)
PollDataReturnsForgetting(err, fault) ==
    /\ Started
    /\ lastCall' = "PollData"
    /\ lastErr' = err
    /\ lastFault' = fault
    /\ emitted' = NoMatrix
    /\ refs' = [refs EXCEPT !.emitted = NilRef]
    /\ lastInput' = <<>>
    /\ inFlight' = NotPolling
    /\ counterInfo' = EmptyMap
    /\ UNCHANGED <<params, metrics, archivedMetrics, instanceLabels,
                   workloadDetailMetrics, mat, isCacheEmpty, metadata, cycles,
                   populated, skipped, lastParent, parsed>>

PollDataReturns(err, fault) ==
    /\ Started
    /\ lastCall' = "PollData"
    /\ lastErr' = err
    /\ lastFault' = fault
    /\ emitted' = NoMatrix
    /\ refs' = [refs EXCEPT !.emitted = NilRef]
    /\ lastInput' = <<>>
    /\ inFlight' = NotPolling
    /\ UNCHANGED <<params, metrics, archivedMetrics, counterInfo, instanceLabels,
                   workloadDetailMetrics, mat, isCacheEmpty, metadata, cycles,
                   populated, skipped, lastParent, parsed>>

(* A check that reports a matrix without instances as a missing metric *)
pollDataReadyOneError(m) ==
    IF m.inst = {} \/ ~ GetMetric(m, timestampMetricName) THEN ErrConfig ELSE NoErr

(* lines 693-701: what PollData returns before it fetches anything *)
pollDataReady(m) ==
    IF m.inst = {} THEN ErrNoInstance
    ELSE IF ~ GetMetric(m, timestampMetricName) THEN ErrConfig
    ELSE NoErr

(* lines 693-701: nothing is fetched without instances and the timestamp metric *)
PollDataNotReady ==
    /\ Idle
    /\ pollDataReady(mat) # NoErr
    /\ PollDataReturns(pollDataReady(mat), "")

(* lines 693-727: PollData finds instances and the timestamp metric, takes *)
(* the time and waits in rest.FetchRestPerfData                            *)
PollDataFetches(startTime) ==
    /\ Started
    /\ Idle
    /\ pollDataReady(mat) = NoErr
    /\ inFlight' = [at |-> "FetchRestPerfData", startTime |-> startTime]
    /\ lastCall' = "FetchRestPerfData"
    /\ UNCHANGED <<params, metrics, archivedMetrics, counterInfo, instanceLabels,
                   workloadDetailMetrics, mat, isCacheEmpty, metadata, lastErr,
                   lastFault, emitted, cycles, populated, skipped, lastInput,
                   lastParent, parsed, refs>>

(* lines 727-730: FetchRestPerfData fails *)
PollDataFail(err) ==
    /\ inFlight.at = "FetchRestPerfData"
    /\ PollDataReturns(dataFetchError(err), err)

(* lines 796-798: FetchRestPerfData returns no batch *)
PollDataEmpty ==
    /\ inFlight.at = "FetchRestPerfData"
    /\ PollDataReturns(ErrNoInstance, "")

(* A first poll that returned its matrix *)
firstPollEmits(curMat) == Some(curMat)

(* lines 1100-1105: the first poll only fills the cache and returns nil *)
firstPollResult(curMat) == NoMatrix

(* lines 1081-1285, once the record loop is over and g is what              *)
(* getParentOpsCounters made of curMat: the error it returned, or the      *)
(* first poll that fills the cache, or the post-processing; s is what the  *)
(* record loop left, curMat the address of the matrix it filled            *)
pollDataFinish(s, g, perfRecords, parent, curMat) ==
    /\ \E cachedData \in {CloneRef(curMat, {refs.stored, refs.emitted, curMat})} :
          IF g.err # NoErr
          THEN /\ lastErr' = g.err
               /\ emitted' = NoMatrix
               /\ refs' = [refs EXCEPT !.emitted = NilRef]
               /\ UNCHANGED <<mat, isCacheEmpty, metadata, cycles, populated, skipped>>
          ELSE /\ lastErr' = NoErr
               /\ cycles' = cycles + 1
               /\ populated' = g.data
               /\ IF isCacheEmpty
                  THEN /\ mat' = g.data
                       /\ isCacheEmpty' = FALSE
                       /\ emitted' = firstPollResult(g.data)
                       /\ refs' = [stored |-> curMat,
                                   emitted |-> IF firstPollResult(g.data).some
                                               THEN curMat ELSE NilRef]
                       /\ skipped' = {}
                       /\ metadata' = [metadata EXCEPT !.numPartials = s.numPartials]
                  ELSE \E order \in OrderedKeys(g.data, counterInfo) :
                           \E r \in {postProcess(g.data, s.prev, counterInfo,
                                                   loadLatencyIoReqd(params), order)} :
                              /\ mat' = StoredForNextPoll(r.cachedData, r.cooked)
                              /\ emitted' = Some(r.cooked)
                              /\ refs' = [stored |-> StoredForNextPoll(cachedData, curMat),
                                          emitted |-> curMat]
                              /\ skipped' = r.pairs
                              /\ metadata' = [skips |-> r.skips,
                                              numPartials |-> s.numPartials]
                              /\ UNCHANGED isCacheEmpty
    /\ lastCall' = "PollData"
    /\ lastFault' = ""
    /\ lastInput' = perfRecords
    /\ lastParent' = parent
    /\ inFlight' = NotPolling
    /\ UNCHANGED <<params, metrics, archivedMetrics, counterInfo, instanceLabels,
                   workloadDetailMetrics, parsed>>

(* line 909: parseMetricResponse panics in the record loop; PollData does  *)
(* not return, and the stored matrix keeps the metrics getMetric gave it   *)
(* for the records before                                                  *)
pollDataPanics(s, perfRecords) ==
    /\ lastCall' = "PollData"
    /\ lastErr' = GoPanic
    /\ lastFault' = ""
    /\ lastInput' = perfRecords
    /\ emitted' = NoMatrix
    /\ refs' = [refs EXCEPT !.emitted = NilRef]
    /\ mat' = s.prev
    /\ inFlight' = NotPolling
    /\ UNCHANGED <<params, metrics, archivedMetrics, counterInfo, instanceLabels,
                   workloadDetailMetrics, isCacheEmpty, metadata, cycles, populated,
                   skipped, lastParent, parsed>>

(* lines 1081-1083 and 1319-1322: getParentOpsCounters is called for the   *)
(* workload-detail objects, and fetches when curMat has the ops metric     *)
fetchesParent(data, p) == isWorkloadDetailObject(p.query) /\ GetMetric(data, "ops")

(* lines 727-1329: FetchRestPerfData returns batches of records and        *)
(* pollData runs the record loop, with the workload-detail metrics as they *)
(* are by then; for a workload-detail object it waits again, in the        *)
(* rest.Fetch of getParentOpsCounters; for the others it goes on and       *)
(* returns                                                                 *)
PollDataParses(perfRecords) ==
    /\ inFlight.at = "FetchRestPerfData"
    /\ perfRecords # <<>>
    /\ cycles < MaxCycles
    /\ \E s \in {populate(inFlight.startTime, perfRecords)} :
       \E curMat \in {CloneRef(refs.stored, {refs.stored, refs.emitted})} :
          IF s.panic
          THEN pollDataPanics(s, perfRecords)
          ELSE IF fetchesParent(s.cur, params)
          THEN /\ inFlight' = [at |-> "Fetch", s |-> s, perfRecords |-> perfRecords,
                               curMat |-> curMat]
               /\ lastCall' = "Fetch"
               /\ UNCHANGED <<params, metrics, archivedMetrics, counterInfo,
                              instanceLabels, workloadDetailMetrics, mat, isCacheEmpty,
                              metadata, lastErr, lastFault, emitted, cycles, populated,
                              skipped, lastInput, lastParent, parsed, refs>>
          ELSE pollDataFinish(s, withParentOps(s.cur, NoParent, params), perfRecords,
                               NoParent, curMat)

(* lines 1329-1285: the rest.Fetch of getParentOpsCounters returns parent; *)
(* pollData sets the ops values and goes on with what the record loop left *)
PollDataParent(parent) ==
    /\ inFlight.at = "Fetch"
    /\ pollDataFinish(inFlight.s, getParentOpsCounters(inFlight.s.cur, parent),
                       inFlight.perfRecords, parent, inFlight.curMat)

----------------------------------------------------------------------------
(* Templates *)

PlainTemplate ==
    [query |-> volumeQuery, counters |-> [name |-> "volume"], floats |-> {},
     keys |-> <<"name">>, labels |-> {}, override |-> EmptyMap,
     latency_io_reqd |-> NoParam,
     refine |-> FALSE, with_constituents |-> "", with_service_latency |-> "",
     has_resource_map |-> FALSE, resource_map |-> <<>>, qos_labels |-> EmptyMap,
     only_cluster_instance |-> "", has_counters |-> TRUE, has_qos_labels |-> FALSE]

RateTemplate ==
    [PlainTemplate EXCEPT !.counters = [name |-> "volume", total_data |-> "total_data"],
                          !.floats = {"total_data"}]

PercentTemplate ==
    [PlainTemplate EXCEPT !.counters = [name |-> "volume", busy |-> "busy"],
                          !.floats = {"busy"}]

DataTemplates == {RateTemplate, PercentTemplate}

(* Schema responses of the data specification *)

Entry(name, type, denominator) ==
    [isObject |-> TRUE, name |-> name, type |-> type, denominator |-> denominator,
     description |-> "", unit |-> "none"]

SchemaRecord(schema) == <<[exists |-> TRUE, counter_schemas |-> schema]>>

DataSchemas ==
    {<<Entry("total_data", "rate", ""), Entry("busy", "percent", "busy_base"),
       Entry("busy_latency", "percent", "busy_base"), Entry("busy_base", base, "")>> :
        base \in {"rate", "raw"}}

(* Instance responses of the data specification *)

PlainRecord(props) ==
    [isObject |-> TRUE, props |-> props, fields |-> EmptyMap, complete |-> "",
     counters |-> <<>>]

InstanceA == PlainRecord([name |-> <<"A">>])
InstanceB == PlainRecord([name |-> <<"B">>])

DataInstanceResponses == {<<InstanceA>>, <<InstanceA, InstanceB>>}

(* Data responses: one batch with its timestamp (0 when it has none) and   *)
(* one record, of the first instance                                       *)

(* A counter value is a number, or text strconv.ParseFloat rejects *)
CounterValues == {Parsed(1), Parsed(3), Unparsed}

RECURSIVE CounterLists(_)
CounterLists(names) ==
    IF names = <<>> THEN {<<>>}
    ELSE LET rest == CounterLists(Tail(names))
         IN rest \cup {<<[name |-> Head(names), value |-> v]>> \o r :
                          v \in CounterValues, r \in rest}

DataCounterNames(p) ==
    IF "total_data" \in p.floats THEN <<"total_data">>
    ELSE IF "busy" \in p.floats THEN <<"busy", "busy_base">>
    ELSE <<"busy_latency", "busy_base">>

DataRecord(rec, counters) == [rec EXCEPT !.counters = counters]

BatchTimestamps == {0, BILLION}

DataResponses(p) ==
    {<<[Timestamp |-> t, Records |-> <<DataRecord(InstanceA, c)>>]>> :
        t \in BatchTimestamps, c \in CounterLists(DataCounterNames(p))}

(* time.Now() at the start of a data poll, in nanoseconds: half a second   *)
(* on per completed poll                                                   *)
Now == (cycles + 1) * (BILLION \div 2)

----------------------------------------------------------------------------
(* The collector driven by its scheduler: the three polls in any order *)

Init == \E p \in DataTemplates : InitState(p)

Next ==
    \/ \E schema \in DataSchemas : PollCounter(SchemaRecord(schema))
    \/ \E err \in RestErrKinds : PollCounterFail(err)
    \/ \E records \in DataInstanceResponses : PollInstance(records)
    \/ \E err \in RestErrKinds : PollInstanceFail(err)
    \/ PollDataNotReady
    \/ \E err \in RestErrKinds : PollDataFail(err)
    \/ PollDataEmpty
    \/ PollDataFetches(Now)
    \/ \E perfRecords \in DataResponses(params) : PollDataParses(perfRecords)

Spec == Init /\ [][Next]_vars

----------------------------------------------------------------------------
(* The schema phase alone: any sequence of schema responses *)

AvgTemplate ==
    [PlainTemplate EXCEPT !.counters = [name |-> "volume", avg_latency |-> "latency"],
                          !.floats = {"avg_latency"}]

DeclaredBaseTemplate ==
    [PlainTemplate EXCEPT !.counters = [name |-> "volume", avg_latency |-> "latency",
                                        total_ops |-> "ops", vol_type |-> "type"],
                          !.floats = {"avg_latency", "total_ops", "vol_type"}]

DetailTemplate ==
    [PlainTemplate EXCEPT !.query = qosDetailQuery,
                          !.counters = [name |-> "workload", service_time |-> "service_time",
                                        wait_time |-> "wait_time"],
                          !.floats = {"service_time", "wait_time"},
                          !.has_resource_map = TRUE,
                          !.resource_map = <<[tag |-> "CPU_dblade", resource |-> "backend"]>>,
                          !.has_qos_labels = TRUE]

CounterTemplates == {AvgTemplate, DeclaredBaseTemplate, DetailTemplate}

NonObjectEntry ==
    [isObject |-> FALSE, name |-> "", type |-> "", denominator |-> "", description |-> "",
     unit |-> ""]

CounterEntries(p) ==
    IF isWorkloadDetailObject(p.query)
    THEN {Entry("service_time", "average", "visits"), Entry("wait_time", "average", "visits"),
          Entry("visits", "rate", ""), NonObjectEntry}
    ELSE {Entry("avg_latency", "average", "total_ops"), Entry("total_ops", "rate", "ops_base"),
          Entry("ops_base", "rate", "")}
         \cup (IF "vol_type" \in p.floats THEN {Entry("vol_type", "string", "")} ELSE {})

(* rest.Fetch returns no record, a record that does not exist, or a record  *)
(* with counter_schemas                                                     *)
CounterResponses(p) ==
    {<<>>, <<[exists |-> FALSE, counter_schemas |-> <<>>]>>}
        \cup {SchemaRecord(schema) : schema \in SeqsUpTo(CounterEntries(p), MaxSchemaLen)}

InitCounter == \E p \in CounterTemplates : InitState(p)

NextCounter ==
    \/ \E records \in CounterResponses(params) : PollCounter(records)
    \/ \E err \in RestErrKinds : PollCounterFail(err)

SpecCounter == InitCounter /\ [][NextCounter]_vars

----------------------------------------------------------------------------
(* The instance phase alone: any sequence of instance responses *)

(* InstanceKeys are sorted by display name *)
KeysTemplate ==
    [PlainTemplate EXCEPT !.counters = [disk |-> "disk", node |-> "node"],
                          !.keys = <<"disk", "node">>]

WorkloadTemplate ==
    [PlainTemplate EXCEPT !.query = qosQuery,
                          !.refine = TRUE,
                          !.with_constituents = "false",
                          !.has_qos_labels = TRUE,
                          !.qos_labels = [volume |-> "volume"]]

InstanceTemplates == {KeysTemplate, WorkloadTemplate}

NonObjectRecord ==
    [isObject |-> FALSE, props |-> EmptyMap, fields |-> EmptyMap, complete |-> "",
     counters |-> <<>>]

QosRecord(fields) ==
    [isObject |-> TRUE, props |-> EmptyMap, fields |-> fields, complete |-> "",
     counters |-> <<>>]

InstanceRecords(p) ==
    IF isWorkloadObject(p.query)
    THEN {QosRecord([uuid |-> <<"u1">>, volume |-> <<"vol">>]),
          QosRecord([uuid |-> <<"u2">>, volume |-> <<"vol", "__", "0001">>]),
          QosRecord([volume |-> <<"vol">>])}
    ELSE {PlainRecord([node |-> <<"n1">>, disk |-> <<"d1">>]),
          PlainRecord([node |-> <<"n1">>, disk |-> <<"d2">>]),
          PlainRecord([node |-> <<"n1">>]),
          PlainRecord([disk |-> <<"d1">>]),
          NonObjectRecord}

InstanceResponses(p) == ListsUpTo(InstanceRecords(p), MaxRecords)

InitInstance == \E p \in InstanceTemplates : InitState(p)

NextInstance ==
    \/ \E records \in InstanceResponses(params) : PollInstance(records)
    \/ \E err \in RestErrKinds : PollInstanceFail(err)

SpecInstance == InitInstance /\ [][NextInstance]_vars

----------------------------------------------------------------------------
(* Init on templates that lack a field, followed by any poll the poller    *)
(* would schedule                                                          *)

InitTemplates ==
    {[PlainTemplate EXCEPT !.query = ""],
     [PlainTemplate EXCEPT !.has_counters = FALSE, !.counters = EmptyMap, !.keys = <<>>],
     [WorkloadTemplate EXCEPT !.has_qos_labels = FALSE, !.qos_labels = EmptyMap],
     [DetailTemplate EXCEPT !.has_qos_labels = FALSE],
     [DetailTemplate EXCEPT !.has_resource_map = FALSE, !.resource_map = <<>>],
     WorkloadTemplate}

InitAny == \E p \in InitTemplates : InitState(p)

NextInit ==
    \/ \E records \in CounterResponses(params) : PollCounter(records)
    \/ \E err \in RestErrKinds : PollCounterFail(err)
    \/ \E err \in RestErrKinds : PollInstanceFail(err)
    \/ PollDataNotReady

SpecInit == InitAny /\ [][NextInit]_vars

----------------------------------------------------------------------------
(* A workload-detail collector polling its schema while other collectors   *)
(* of the same process are initialised                                     *)

(* Init of another collector, of template q, in the same process: of all   *)
(* it does, only the append to the package variable workloadDetailMetrics  *)
(* reaches outside that collector                                          *)
OtherCollectorInit(q) ==
    /\ Len(workloadDetailMetrics) <= MaxCollectors
    /\ InitReturns(q) = NoErr
    /\ workloadDetailMetrics' = InitQOSAppend(workloadDetailMetrics, q)
    /\ UNCHANGED <<params, metrics, archivedMetrics, counterInfo, instanceLabels, mat,
                   isCacheEmpty, metadata, lastCall, lastErr, lastFault, emitted, cycles,
                   populated, skipped, lastInput, lastParent, parsed, refs, inFlight>>

InitShared == InitState([DetailTemplate EXCEPT !.refine = TRUE,
                                               !.with_service_latency = "false"])

NextShared ==
    \/ \E records \in CounterResponses(params) : PollCounter(records)
    \/ \E err \in RestErrKinds : PollCounterFail(err)
    \/ \E q \in {WorkloadTemplate, KeysTemplate} : OtherCollectorInit(q)

SpecShared == InitShared /\ [][NextShared]_vars

----------------------------------------------------------------------------
(* A workload-detail collector: the latency of each layer of a workload,   *)
(* from the service_time and wait_time of qos_detail and the ops of qos    *)

DetailSchema ==
    <<Entry("service_time", "average", "visits"), Entry("wait_time", "average", "visits")>>

DetailInstanceResponses ==
    {<<QosRecord([name |-> <<"w1">>])>>,
     <<QosRecord([name |-> <<"w1">>]), QosRecord([name |-> <<"w2">>])>>}

(* A qos_detail record is keyed <cluster>:<workload>.<layer> *)
DetailKey(workload, layer) == <<"clA", ":", workload, ".", layer>>

DetailRecord(key, service, wait) ==
    DataRecord(PlainRecord([name |-> key]),
               <<[name |-> "service_time", value |-> service],
                 [name |-> "wait_time", value |-> wait]>>)

DetailRecords ==
    {DetailRecord(DetailKey("w1", "CPU_dblade"), Parsed(300), Parsed(100)),
     DetailRecord(DetailKey("w1", "CPU_dblade"), Parsed(600), Parsed(200)),
     DetailRecord(DetailKey("w1", "CPU_dblade"), Parsed(600), Unparsed),
     DetailRecord(DetailKey("w1", "DISK_HDD"), Parsed(600), Parsed(200)),
     DetailRecord(<<"clA", ":", "w1">>, Parsed(600), Parsed(200))}

DetailResponses == {<<[Timestamp |-> 0, Records |-> <<rec>>]>> : rec \in DetailRecords}

(* A record of the parent qos table: the workload's name and its ops *)
ParentRecord(workload, ops) ==
    DataRecord(PlainRecord([name |-> <<workload>>]), <<[name |-> "ops", value |-> ops]>>)

(* A record of the parent whose ops comes as sub-counters that hold more   *)
(* values than the counter has labels                                      *)
ParentSubCounters(workload) ==
    DataRecord(PlainRecord([name |-> <<workload>>]),
               <<[name |-> "ops", labels |-> <<"lt_1ms", "1_to_4ms">>,
                  counters |-> <<[label |-> "nfs", values |-> <<Parsed(10), Parsed(30)>>],
                                 [label |-> "cifs", values |-> <<Parsed(10)>>]>>]>>)

ParentResponses ==
    {[err |-> "Unauthorized", records |-> <<>>],
     [err |-> "", records |-> <<>>],
     [err |-> "", records |-> <<ParentRecord("w1", Parsed(50))>>],
     [err |-> "", records |-> <<ParentRecord("w1", Parsed(55))>>],
     [err |-> "", records |-> <<ParentRecord("w1", Parsed(100))>>],
     [err |-> "", records |-> <<ParentRecord("w2", Parsed(100))>>],
     [err |-> "", records |-> <<ParentSubCounters("w1")>>]}

InitDetail == InitState(DetailTemplate)

NextDetail ==
    \/ PollCounter(SchemaRecord(DetailSchema))
    \/ \E records \in DetailInstanceResponses : PollInstance(records)
    \/ PollDataFetches(Now)
    \/ \E perfRecords \in DetailResponses : PollDataParses(perfRecords)
    \/ \E parent \in ParentResponses : PollDataParent(parent)

SpecDetail == InitDetail /\ [][NextDetail]_vars

----------------------------------------------------------------------------
(* A workload-detail collector with two layers: one response can hold a    *)
(* record for each layer of the same workload, complete or not             *)

TwoLayerTemplate ==
    [DetailTemplate EXCEPT !.resource_map = <<[tag |-> "CPU_dblade", resource |-> "backend"],
                                              [tag |-> "DISK_HDD", resource |-> "disk"]>>]

Incomplete(rec) == [rec EXCEPT !.complete = "false"]

LayerRecordsOfW1 ==
    {DetailRecord(DetailKey("w1", "CPU_dblade"), Parsed(300), Parsed(100)),
     Incomplete(DetailRecord(DetailKey("w1", "CPU_dblade"), Parsed(600), Parsed(200))),
     Incomplete(DetailRecord(DetailKey("w1", "DISK_HDD"), Parsed(600), Parsed(200)))}

PartialResponses ==
    {<<[Timestamp |-> 0, Records |-> recs]>> :
        recs \in ListsUpTo(LayerRecordsOfW1, 2) \ {<<>>}}

PartialParents ==
    {[err |-> "", records |-> <<ParentRecord("w1", ops)>>] : ops \in {Parsed(50), Parsed(100)}}

InitPartial == InitState(TwoLayerTemplate)

NextPartial ==
    \/ PollCounter(SchemaRecord(DetailSchema))
    \/ PollInstance(<<QosRecord([name |-> <<"w1">>])>>)
    \/ PollDataFetches(Now)
    \/ \E perfRecords \in PartialResponses : PollDataParses(perfRecords)
    \/ \E parent \in PartialParents : PollDataParent(parent)

SpecPartial == InitPartial /\ [][NextPartial]_vars

----------------------------------------------------------------------------
(* A base counter that has a base counter of its own *)

NestedSchema ==
    <<Entry("avg_latency", "average", "total_ops"), Entry("total_ops", "rate", "ops_base"),
      Entry("ops_base", "rate", "")>>

NestedRecord(latency, ops, base) ==
    DataRecord(InstanceA, <<[name |-> "avg_latency", value |-> Parsed(latency)],
                            [name |-> "total_ops", value |-> Parsed(ops)],
                            [name |-> "ops_base", value |-> Parsed(base)]>>)

NestedResponses ==
    {<<[Timestamp |-> 0, Records |-> <<NestedRecord(latency, ops, base)>>]>> :
        latency \in {1000, 3000}, ops \in {100, 300}, base \in {10, 30}}

InitNested == InitState(AvgTemplate)

NextNested ==
    \/ PollCounter(SchemaRecord(NestedSchema))
    \/ PollInstance(<<InstanceA>>)
    \/ PollDataFetches(Now)
    \/ \E perfRecords \in NestedResponses : PollDataParses(perfRecords)

SpecNested == InitNested /\ [][NextNested]_vars

----------------------------------------------------------------------------
(* A latency and a size that share a base counter, under a default, a      *)
(* configured and an unreadable latency_io_reqd                            *)

LatencyTemplate ==
    [PlainTemplate EXCEPT !.counters = [name |-> "volume", read_latency |-> "read_latency",
                                        read_size |-> "read_size"],
                          !.floats = {"read_latency", "read_size"}]

LatencyTemplates ==
    {[LatencyTemplate EXCEPT !.latency_io_reqd = x] : x \in {NoParam, IntParam(100), TextParam}}

LatencySchema ==
    <<Entry("read_latency", "average", "read_ops"), Entry("read_size", "average", "read_ops"),
      Entry("read_ops", "rate", "")>>

LatencyRecord(latency, size, ops) ==
    DataRecord(InstanceA, <<[name |-> "read_latency", value |-> Parsed(latency)],
                            [name |-> "read_size", value |-> Parsed(size)],
                            [name |-> "read_ops", value |-> Parsed(ops)]>>)

LatencyResponses ==
    {<<[Timestamp |-> 0, Records |-> <<LatencyRecord(latency, size, ops)>>]>> :
        latency \in {1000, 3000}, size \in {40, 80}, ops \in {100, 105, 155}}

InitLatency == \E p \in LatencyTemplates : InitState(p)

NextLatency ==
    \/ PollCounter(SchemaRecord(LatencySchema))
    \/ PollInstance(<<InstanceA>>)
    \/ PollDataFetches(Now)
    \/ \E perfRecords \in LatencyResponses : PollDataParses(perfRecords)

SpecLatency == InitLatency /\ [][NextLatency]_vars

----------------------------------------------------------------------------
(* A workload-detail collector and workloads with and without a dot in     *)
(* their name                                                              *)

DottedName == <<"w", ".", "x">>

DottedInstanceResponses ==
    {<<QosRecord([name |-> <<"w1">>])>>, <<QosRecord([name |-> DottedName])>>,
     <<QosRecord([name |-> <<"w1">>]), QosRecord([name |-> DottedName])>>}

DottedRecords ==
    {DetailRecord(<<"clA", ":">> \o name \o <<".", "CPU_dblade">>, Parsed(service), Parsed(100)) :
        name \in {<<"w1">>, DottedName}, service \in {300, 600}}

DottedResponses == {<<[Timestamp |-> 0, Records |-> <<rec>>]>> : rec \in DottedRecords}

DottedParents ==
    {[err |-> "", records |-> <<[ParentRecord("w1", Parsed(ops)) EXCEPT !.props.name = name]>>] :
        name \in {<<"w1">>, DottedName}, ops \in {50, 100}}

InitDotted == InitState(DetailTemplate)

NextDotted ==
    \/ PollCounter(SchemaRecord(DetailSchema))
    \/ \E records \in DottedInstanceResponses : PollInstance(records)
    \/ PollDataFetches(Now)
    \/ \E perfRecords \in DottedResponses : PollDataParses(perfRecords)
    \/ \E parent \in DottedParents : PollDataParent(parent)

SpecDotted == InitDotted /\ [][NextDotted]_vars

----------------------------------------------------------------------------
(* Two key counters, declared in either order *)

KeyOrderTemplates ==
    {[PlainTemplate EXCEPT !.counters = [disk |-> "disk", node |-> "node",
                                         total_data |-> "total_data"],
                           !.keys = declared,
                           !.floats = {"total_data"}] :
        declared \in {<<"disk", "node">>, <<"node", "disk">>}}

KeyOrderRecords ==
    {PlainRecord([node |-> <<"n1">>, disk |-> <<d>>]) : d \in {"d1", "d2"}}

KeyOrderInstanceResponses == ListsUpTo(KeyOrderRecords, 2) \ {<<>>}

KeyOrderResponses ==
    {<<[Timestamp |-> 0,
        Records |-> <<DataRecord(rec, <<[name |-> "total_data", value |-> Parsed(n)]>>)>>]>> :
        rec \in KeyOrderRecords, n \in {1, 3}}

InitKeyOrder == \E p \in KeyOrderTemplates : InitState(p)

NextKeyOrder ==
    \/ PollCounter(SchemaRecord(<<Entry("total_data", "rate", "")>>))
    \/ \E records \in KeyOrderInstanceResponses : PollInstance(records)
    \/ PollDataFetches(Now)
    \/ \E perfRecords \in KeyOrderResponses : PollDataParses(perfRecords)

SpecKeyOrder == InitKeyOrder /\ [][NextKeyOrder]_vars

----------------------------------------------------------------------------
(* An array counter: a plain array or a list of sub-counters, described as *)
(* a histogram or not                                                      *)

ArrayTemplate ==
    [PlainTemplate EXCEPT !.counters = [name |-> "volume",
                                        read_latency_hist |-> "read_latency_hist"],
                          !.floats = {"read_latency_hist"}]

ArraySchemas ==
    {<<[Entry("read_latency_hist", "rate", "") EXCEPT !.description = description]>> :
        description \in HistogramDescriptions \cup {"Read latency"}}

(* The bucket labels of the counter, the same in every record *)
ReadLatencyLabels == <<"lt_1ms", "1_to_4ms">>

(* One, two or three values for the two labels *)
ArrayValues == {<<Parsed(10)>>, <<Parsed(10), Parsed(30)>>,
                <<Parsed(10), Parsed(30), Parsed(30)>>}

ArrayCounter(values) ==
    [name |-> "read_latency_hist", labels |-> ReadLatencyLabels, values |-> values]

SubCounter(label, values) == [label |-> label, values |-> values]

SubCounters(nfs, cifs) ==
    [name |-> "read_latency_hist", labels |-> ReadLatencyLabels,
     counters |-> <<SubCounter("nfs", nfs), SubCounter("cifs", cifs)>>]

ArrayCounters ==
    {ArrayCounter(values) : values \in ArrayValues}
        \cup {SubCounters(nfs, cifs) : nfs \in ArrayValues, cifs \in ArrayValues}

ArrayResponses ==
    {<<[Timestamp |-> 0, Records |-> <<DataRecord(InstanceA, <<counter>>)>>]>> :
        counter \in ArrayCounters}

InitArray == InitState(ArrayTemplate)

NextArray ==
    \/ \E schema \in ArraySchemas : PollCounter(SchemaRecord(schema))
    \/ PollInstance(<<InstanceA>>)
    \/ PollDataFetches(Now)
    \/ \E perfRecords \in ArrayResponses : PollDataParses(perfRecords)

SpecArray == InitArray /\ [][NextArray]_vars

----------------------------------------------------------------------------
(* Wide records: two requested counters among others, in any order, a      *)
(* counter possibly listed more than once                                  *)

WideTemplate ==
    [PlainTemplate EXCEPT !.counters = [name |-> "volume", total_data |-> "total_data",
                                        read_latency_hist |-> "read_latency_hist"],
                          !.floats = {"total_data", "read_latency_hist"}]

WideSchema == <<Entry("total_data", "rate", ""), Entry("read_latency_hist", "rate", "")>>

WideCounters ==
    {[name |-> "total_data", value |-> Parsed(1)],
     [name |-> "total_data", value |-> Parsed(3)],
     [name |-> "other_data", value |-> Parsed(1)],
     ArrayCounter(<<Parsed(10), Parsed(30)>>)}

WideResponses ==
    {<<[Timestamp |-> 0, Records |-> <<DataRecord(InstanceA, counters)>>]>> :
        counters \in SeqsUpTo(WideCounters, MaxSchemaLen)}

InitWide == InitState(WideTemplate)

NextWide ==
    \/ PollCounter(SchemaRecord(WideSchema))
    \/ PollInstance(<<InstanceA>>)
    \/ PollDataFetches(Now)
    \/ \E perfRecords \in WideResponses : PollDataParses(perfRecords)

SpecWide == InitWide /\ [][NextWide]_vars

----------------------------------------------------------------------------
(* Two key fields, and records that lack one of them *)

MissingKeyTemplate ==
    [PlainTemplate EXCEPT !.counters = [disk |-> "disk", node |-> "node",
                                        total_data |-> "total_data"],
                          !.keys = <<"disk", "node">>,
                          !.floats = {"total_data"}]

MissingKeyRecords ==
    {PlainRecord([node |-> <<"n1">>, disk |-> <<"d1">>]),
     PlainRecord([node |-> <<"n1">>]),
     PlainRecord([disk |-> <<"d1">>])}

MissingKeyInstanceResponses == ListsUpTo(MissingKeyRecords, MaxRecords) \ {<<>>}

MissingKeyResponses ==
    {<<[Timestamp |-> 0,
        Records |-> <<DataRecord(rec, <<[name |-> "total_data", value |-> Parsed(n)]>>)>>]>> :
        rec \in MissingKeyRecords, n \in {1, 3}}

InitMissingKey == InitState(MissingKeyTemplate)

NextMissingKey ==
    \/ PollCounter(SchemaRecord(<<Entry("total_data", "rate", "")>>))
    \/ \E records \in MissingKeyInstanceResponses : PollInstance(records)
    \/ PollDataFetches(Now)
    \/ \E perfRecords \in MissingKeyResponses : PollDataParses(perfRecords)

SpecMissingKey == InitMissingKey /\ [][NextMissingKey]_vars

----------------------------------------------------------------------------
(* The two counter parsers on the same record: a counter of each form      *)
(* among other counters, each name listed once                             *)

ParseNames == {"read_latency_hist", "total_data", "other_data"}

(* A list of sub-counters the first of which has no values; below also a  *)
(* counter whose value is the empty text, alone and beside an array        *)
SubCountersWithoutValues(cifs) ==
    [name |-> "read_latency_hist", labels |-> ReadLatencyLabels,
     counters |-> <<[label |-> "nfs"], SubCounter("cifs", cifs)>>]

ParseCounters ==
    {[name |-> name, value |-> Parsed(1)] : name \in {"total_data", "other_data"}}
        \cup {[name |-> "read_latency_hist", value |-> Parsed(3)]}
        \cup ArrayCounters
        \cup {SubCountersWithoutValues(cifs) : cifs \in ArrayValues}
        \cup {[name |-> "read_latency_hist", value |-> EmptyText],
              [name |-> "other_data", value |-> EmptyText, labels |-> ReadLatencyLabels,
               values |-> <<Parsed(10), Parsed(30)>>]}

ParseRecords ==
    {DataRecord(InstanceA, counters) :
        counters \in {c \in SeqsUpTo(ParseCounters, MaxSchemaLen) :
                         \A i, j \in DOMAIN c : c[i].name = c[j].name => i = j}}

(* lines 467-541 and 543-597 applied to one record and one counter name *)
ParseCounter(instanceData, metric) ==
    /\ parsed' = [some |-> TRUE, instanceData |-> instanceData, metric |-> metric,
                  single |-> parseMetricResponse(instanceData, metric),
                  multi |-> parseMetricResponses(instanceData, {metric})]
    /\ UNCHANGED <<params, metrics, archivedMetrics, counterInfo, instanceLabels,
                   workloadDetailMetrics, mat, isCacheEmpty, metadata, lastCall,
                   lastErr, lastFault, emitted, cycles, populated, skipped, lastInput,
                   lastParent, refs, inFlight>>

InitParse == InitState(ArrayTemplate)

NextParse ==
    \E instanceData \in ParseRecords, metric \in ParseNames :
        ParseCounter(instanceData, metric)

SpecParse == InitParse /\ [][NextParse]_vars

----------------------------------------------------------------------------
(* A workload-detail collector under every setting of refine and           *)
(* with_service_latency, in a process where other collectors are           *)
(* initialised as well                                                     *)

WaitTemplates ==
    {[DetailTemplate EXCEPT !.refine = refine, !.with_service_latency = latency] :
        refine \in BOOLEAN, latency \in {"", "true", "false"}}

WaitResponses ==
    {<<[Timestamp |-> 0, Records |-> <<rec>>]>> :
        rec \in {DetailRecord(DetailKey("w1", "CPU_dblade"), Parsed(300), Parsed(100)),
                 DetailRecord(DetailKey("w1", "CPU_dblade"), Parsed(600), Parsed(200))}}

WaitParents == {[err |-> "", records |-> <<ParentRecord("w1", Parsed(ops))>>] : ops \in {50, 100}}

InitWait == \E p \in WaitTemplates : InitState(p)

NextWait ==
    \/ PollCounter(SchemaRecord(DetailSchema))
    \/ PollInstance(<<QosRecord([name |-> <<"w1">>])>>)
    \/ PollDataFetches(Now)
    \/ \E perfRecords \in WaitResponses : PollDataParses(perfRecords)
    \/ \E parent \in WaitParents : PollDataParent(parent)
    \/ \E q \in WaitTemplates \cup {WorkloadTemplate} : OtherCollectorInit(q)

SpecWait == InitWait /\ [][NextWait]_vars

----------------------------------------------------------------------------
(* Properties of the data phase, checked under Spec *)

(* PollData returned without error: a cycle completed *)
DataCycle == lastCall = "PollData" /\ lastErr = NoErr

(* PollData returns without error and emits: a cycle after the first *)
CookedCycleStep == lastCall' = "PollData" /\ lastErr' = NoErr /\ emitted'.some

MetricsOfType(m, t) ==
    {k \in DOMAIN m.met : Has(counterInfo, k) /\ counterInfo[k].counterType = t}

RawValue(m, k, i) == IF Has(m.val, k) /\ i \in m.inst THEN m.val[k][i] ELSE Invalid

(* raw_cur - raw_prev of one metric and instance, when both were recorded *)
RawDelta(cur, prev, k, i) ==
    IF RawValue(cur, k, i).ok /\ RawValue(prev, k, i).ok
    THEN RatSub(RawValue(cur, k, i), RawValue(prev, k, i))
    ELSE Invalid

(* C1: the first PollData cycle emits no matrix, stores the populated      *)
(* matrix as the baseline and clears isCacheEmpty; the second and every    *)
(* later cycle emits a matrix                                              *)
FirstCycleEmitsNothing ==
    DataCycle =>
        /\ ~ isCacheEmpty
        /\ cycles = 1 => (~ emitted.some /\ mat = populated)
        /\ cycles >= 2 => emitted.some

LaterCycleEmitted == DataCycle /\ cycles >= 2 /\ emitted.some /\ ~ isCacheEmpty

(* C2: after every PollData cycle the stored matrix holds the raw values   *)
(* this cycle populated, for the same instances: nothing of the delta,     *)
(* division or multiplication applied to the emitted matrix shows in it    *)
StoredIsRawSnapshot ==
    DataCycle => mat.inst = populated.inst /\ mat.val = populated.val

CookedDiffersFromStored ==
    /\ DataCycle
    /\ emitted.some
    /\ \E k \in DOMAIN emitted.m.val \ {timestampMetricName} : \E i \in emitted.m.inst :
           emitted.m.val[k][i].ok /\ emitted.m.val[k][i] # mat.val[k][i]

(* C3: in every cycle after the first, a rate metric of an instance is     *)
(* emitted as (raw_cur - raw_prev) / (ts_cur - ts_prev) when both raw      *)
(* values and both timestamps were recorded, the counter did not go back   *)
(* and time elapsed; otherwise it has no value and the pair is among the   *)
(* skips                                                                   *)
RateIsDeltaOverElapsed ==
    [][
    CookedCycleStep =>
        \A k \in MetricsOfType(emitted'.m, "rate") : \A i \in emitted'.m.inst :
            LET dv == RawDelta(populated', mat, k, i)
                dt == RawDelta(populated', mat, timestampMetricName, i)
            IN IF dv.ok /\ dt.ok /\ dv.n >= 0 /\ dt.n > 0
               THEN emitted'.m.val[k][i] = RatDiv(dv, dt) /\ <<k, i>> \notin skipped'
               ELSE ~ emitted'.m.val[k][i].ok /\ <<k, i>> \in skipped'
    ]_vars

RateEmitted ==
    /\ DataCycle
    /\ emitted.some
    /\ \E k \in MetricsOfType(emitted.m, "rate") : \E i \in emitted.m.inst :
           emitted.m.val[k][i].ok /\ emitted.m.val[k][i].n > 0
                                  /\ emitted.m.val[k][i] # populated.val[k][i]

(* C4: in every cycle after the first, a percent metric whose base counter *)
(* is in the matrix is emitted as 100 * (delta(m) / delta(denom(m))), or   *)
(* the pair is among the skips                                             *)
PercentIsDeltaOverBaseDelta ==
    [][
    CookedCycleStep =>
        \A k \in MetricsOfType(emitted'.m, "percent") : \A i \in emitted'.m.inst :
            LET d == counterInfo[k].denominator
                dv == RawDelta(populated', mat, k, i)
                dd == RawDelta(populated', mat, d, i)
            IN GetMetric(emitted'.m, d) =>
                   \/ <<k, i>> \in skipped'
                   \/ /\ dv.ok /\ dd.ok /\ dd.n > 0
                      /\ emitted'.m.val[k][i] = RatMul(RatDiv(dv, dd), PercentScale)
    ]_vars

(* C10: in each phase a table-not-found or API-not-found transport error   *)
(* is returned as ErrAPIRequestRejected and nothing is emitted; any other  *)
(* transport error is returned with the original error in its chain        *)
TransportErrorsSurface ==
    /\ lastFault \in {"TableNotFound", "APINotFound"} =>
           lastErr = ErrAPIRequestRejected /\ ~ emitted.some
    /\ lastFault \in RestErrKinds \ {"TableNotFound", "APINotFound"} =>
           lastFault \in lastErr /\ ~ emitted.some

----------------------------------------------------------------------------
(* Properties of the instance phase, checked under SpecInstance *)

(* PollInstance fetched a response and parsed it *)
InstancePolled == lastCall = "PollInstance" /\ lastFault = ""

(* the record is passed over as a constituent of a workload *)
IsSkippedConstituent(instanceData, p) ==
    /\ isWorkloadObject(p.query) \/ isWorkloadDetailObject(p.query)
    /\ disableConstituents(p)
    /\ constituentRegexMatch(GetField(instanceData, "volume").value)

(* lines 1503-1529, the keys the instance poll makes instances of: the key *)
(* of every record that is an object and no skipped constituent; of a      *)
(* record that lacks a key field, the key built up to the missing field    *)
BuiltKeys(records, p) ==
    {pollInstanceKey(records[j], pollInstanceKeys(p), p) :
        j \in {x \in DOMAIN records :
                  records[x].isObject /\ ~ IsSkippedConstituent(records[x], p)}}

(* The record has every key field of the instance poll *)
HasEveryKey(instanceData, p) ==
    \A i \in DOMAIN pollInstanceKeys(p) :
        (IF isWorkloadObject(p.query) \/ isWorkloadDetailObject(p.query)
         THEN GetField(instanceData, pollInstanceKeys(p)[i])
         ELSE parseProperties(instanceData, pollInstanceKeys(p)[i])).exists

(* The keys of the records of a response that have every key field *)
CompleteKeys(records, p) ==
    {pollInstanceKey(records[j], pollInstanceKeys(p), p) :
        j \in {x \in DOMAIN records :
                  /\ records[x].isObject
                  /\ ~ IsSkippedConstituent(records[x], p)
                  /\ HasEveryKey(records[x], p)}}

(* C5: after any PollInstance call the instance keys of the matrix are    *)
(* exactly the keys parsed from the records of its response, the keys of   *)
(* the records that have every key field: no key cached by an earlier poll *)
(* and absent from the response remains, and no parsed key is missing      *)
InstancesMatchResponse ==
    InstancePolled => mat.inst = CompleteKeys(lastInput, params)

(* After a PollInstance call whose response holds at least one record the  *)
(* instance keys of the matrix are the keys built from its records, the    *)
(* partial keys among them: the instances of the earlier polls that no     *)
(* record names are removed                                                *)
InstancesMatchBuiltKeys ==
    (InstancePolled /\ lastInput # <<>>) => mat.inst = BuiltKeys(lastInput, params)

(* After a PollInstance call whose response holds no record the instances  *)
(* are those of before the call                                            *)
EmptyResponseKeepsInstances ==
    [][
    (lastCall' = "PollInstance" /\ lastFault' = "" /\ lastInput' = <<>>)
        => mat'.inst = mat.inst
    ]_vars

----------------------------------------------------------------------------
(* Properties of the schema phase, checked under SpecCounter *)

(* the object entries of the counter_schemas the call parsed *)
SchemaEntries(records) ==
    IF records = <<>> THEN {}
    ELSE IF ~ records[1].exists THEN {}
    ELSE {c \in Range(records[1].counter_schemas) : c.isObject}

Listed(records, name) == \E c \in SchemaEntries(records) : c.name = name

ListedAsString(records, name, p) ==
    \E c \in SchemaEntries(records) :
        /\ c.name = name
        /\ IsStringType(IF GetOverride(p, name) # "" THEN GetOverride(p, name) ELSE c.type)

(* every denominator the response names is a counter the response lists *)
ListsItsDenominators(records) ==
    \A c \in SchemaEntries(records) : c.denominator # "" => Listed(records, c.denominator)

(* C6: after every PollCounter the active and the archived metric names    *)
(* are disjoint, and no name that was active or archived before the call   *)
(* is lost from their union                                                *)
ActiveAndArchiveDisjoint ==
    [][
    lastCall' = "PollCounter" =>
        /\ DOMAIN metrics' \cap DOMAIN archivedMetrics' = {}
        /\ (DOMAIN metrics \cup DOMAIN archivedMetrics)
               \subseteq (DOMAIN metrics' \cup DOMAIN archivedMetrics')
    ]_vars

SomeArchivedSomeActive ==
    /\ lastCall = "PollCounter"
    /\ lastErr = NoErr
    /\ DOMAIN archivedMetrics # {}
    /\ DOMAIN metrics # {}
    /\ DOMAIN archivedMetrics \cap DOMAIN counterInfo # {}

(* C7, for counters that are not of string type: an archived metric that   *)
(* a schema poll does not list stays in the archive as it is, and one that *)
(* the poll lists is active again with the Label and Exportable the        *)
(* archive held for it                                                     *)
ArchivedMetricKeptAndRestored ==
    [][
    (lastCall' = "PollCounter" /\ lastFault' = "") =>
        \A n \in DOMAIN archivedMetrics :
            IF Listed(lastInput', n)
            THEN /\ n \in DOMAIN metrics'
                 /\ ~ ListedAsString(lastInput', n, params) =>
                        /\ metrics'[n].Label = archivedMetrics[n].Label
                        /\ metrics'[n].Exportable = archivedMetrics[n].Exportable
            ELSE /\ n \in DOMAIN archivedMetrics'
                 /\ archivedMetrics'[n] = archivedMetrics[n]
    ]_vars

(* C8, for responses that list every denominator they name: after          *)
(* PollCounter every denominator of an active metric is active, and is not *)
(* exported unless the template declares it; in whatever order the         *)
(* response lists the counters (visits of workload-detail objects aside)   *)
DenominatorsActive ==
    (lastCall = "PollCounter" /\ lastErr = NoErr /\ ListsItsDenominators(lastInput)) =>
        \A m \in DOMAIN metrics \cap DOMAIN counterInfo :
            LET d == counterInfo[m].denominator
            IN (d # "" /\ ~ (isWorkloadDetailObject(params.query) /\ d = "visits")) =>
                   /\ d \in DOMAIN metrics
                   /\ d \notin params.floats => ~ metrics[d].Exportable

(* C9, for responses that list every denominator they name: a PollCounter  *)
(* call that parses the same response as the PollCounter call before it    *)
(* leaves the active metrics, the archive and counterInfo as they were     *)
RepeatedPollCounterIdempotent ==
    [][
    (/\ lastCall = "PollCounter" /\ lastFault = "" /\ lastErr = NoErr
     /\ lastCall' = "PollCounter" /\ lastFault' = "" /\ lastErr' = NoErr
     /\ lastInput' = lastInput
     /\ ListsItsDenominators(lastInput)) =>
        /\ metrics' = metrics
        /\ archivedMetrics' = archivedMetrics
        /\ counterInfo' = counterInfo
    ]_vars

----------------------------------------------------------------------------
(* Properties of Init, checked under SpecInit *)

IsQosObject(p) == isWorkloadObject(p.query) \/ isWorkloadDetailObject(p.query)

(* C11: when the template lacks query or counters, or is of a workload or  *)
(* workload-detail object and lacks qos_labels, Init returned              *)
(* ErrMissingParam and no poll phase ever runs                             *)
FaultyTemplateStopsAtInit ==
    (params.query = "" \/ ~ params.has_counters
        \/ (IsQosObject(params) /\ ~ params.has_qos_labels))
    => lastCall = "Init" /\ lastErr = ErrMissingParam

(* Init of a workload template without qos_labels has failed *)
QosLabelsMissingAtInit ==
    /\ IsQosObject(params) /\ ~ params.has_qos_labels
    /\ lastCall = "Init" /\ lastErr = ErrMissingParam

(* C12: when the template of a workload or workload-detail object lacks    *)
(* resource_map, Init returned ErrMissingParam and no poll phase ever runs *)
NoResourceMapStopsAtInit ==
    (IsQosObject(params) /\ ~ params.has_resource_map)
    => lastCall = "Init" /\ lastErr = ErrMissingParam

----------------------------------------------------------------------------
(* Properties of malformed responses, checked under SpecCounter *)

(* C13: a schema poll whose response holds no record, or whose first       *)
(* record does not exist, returns ErrConfig and leaves the active metrics, *)
(* the archive and counterInfo as they were; a PollData on a matrix with   *)
(* instances and without the timestamp metric returns ErrConfig            *)
MalformedResponseIsErrConfig ==
    [][ /\ (lastCall' = "PollCounter" /\ lastFault' = ""
             /\ (lastInput' = <<>> \/ ~ lastInput'[1].exists))
            => (lastErr' = ErrConfig
                /\ UNCHANGED <<metrics, archivedMetrics, counterInfo>>)
        /\ (lastCall' = "PollData" /\ mat.inst # {}
             /\ ~ GetMetric(mat, timestampMetricName))
            => lastErr' = ErrConfig
    ]_vars

----------------------------------------------------------------------------
(* Properties of field parse errors and skips, checked under Spec *)

(* The counters of the active metrics whose value in a data response does  *)
(* not parse as a number                                                   *)
ParseErrors(perfRecords) ==
    {<<b, r, j>> \in (1..Len(perfRecords)) \X (1..MaxRecords) \X (1..MaxSchemaLen) :
        /\ r <= Len(perfRecords[b].Records)
        /\ j <= Len(perfRecords[b].Records[r].counters)
        /\ ~ perfRecords[b].Records[r].counters[j].value.num
        /\ perfRecords[b].Records[r].counters[j].name \in DOMAIN metrics}

(* C14: a PollData whose response holds a counter value that does not      *)
(* parse returns no error, and the skip is recorded in the skips metadata  *)
ParseErrorIsRecorded ==
    (lastCall = "PollData" /\ lastInput # <<>> /\ ParseErrors(lastInput) # {})
    => (lastErr = NoErr /\ metadata.skips >= 1)

(* The instance-metric pairs of the emitted matrix whose cooked value was  *)
(* dropped: the metric is post-processed and not raw or string             *)
DroppedPairs ==
    {<<k, i>> \in PostProcessed(emitted.m, counterInfo) \X emitted.m.inst :
        /\ counterInfo[k].counterType \notin {"raw", "string"}
        /\ ~ emitted.m.val[k][i].ok}

----------------------------------------------------------------------------
(* Properties of constituent suppression, checked under SpecInstance *)

IsConstituentRecord(rec) ==
    rec.isObject /\ constituentRegexMatch(GetField(rec, "volume").value)

(* C18: on a workload or workload-detail object whose template gives       *)
(* refine with_constituents = false, no record whose volume ends in two    *)
(* underscores and four digits has its key in the cache, and after an      *)
(* instance poll the cache holds the keys of the other records only        *)
ConstituentsNeverCached ==
    (IsQosObject(params) /\ params.refine /\ params.with_constituents = "false")
    => /\ \A rec \in InstanceRecords(params) :
              IsConstituentRecord(rec)
              => pollInstanceKey(rec, pollInstanceKeys(params), params) \notin mat.inst
       /\ (InstancePolled /\ lastInput # <<>>)
          => Cardinality(mat.inst) =
                Cardinality({pollInstanceKey(lastInput[j], pollInstanceKeys(params), params) :
                                j \in {x \in DOMAIN lastInput :
                                          lastInput[x].isObject
                                          /\ ~ IsConstituentRecord(lastInput[x])}})

(* An instance poll parsed a constituent record next to another record     *)
ConstituentPassedOver ==
    /\ InstancePolled /\ lastErr = NoErr
    /\ IsQosObject(params) /\ params.refine /\ params.with_constituents = "false"
    /\ \E j \in DOMAIN lastInput : IsConstituentRecord(lastInput[j])
    /\ mat.inst # {}

----------------------------------------------------------------------------
(* Properties of the timestamp metric, checked under Spec *)

HasRawTimestamp(m) ==
    /\ GetMetric(m, timestampMetricName)
    /\ m.met[timestampMetricName].property = "raw"
    /\ ~ m.met[timestampMetricName].exportable

(* C19: the matrix a PollData cycle populated, the matrix it stored and    *)
(* the matrix it emitted each hold the timestamp metric, with property raw *)
(* and not exported                                                        *)
TimestampOnEveryMatrix ==
    DataCycle
    => /\ HasRawTimestamp(populated)
       /\ HasRawTimestamp(mat)
       /\ emitted.some => HasRawTimestamp(emitted.m)

(* A cycle emitted a matrix whose instances carry a timestamp delta *)
TimestampedMatrixEmitted ==
    /\ DataCycle /\ emitted.some
    /\ \E i \in emitted.m.inst : emitted.m.val[timestampMetricName][i].ok

----------------------------------------------------------------------------
(* Properties of collectors of one process, checked under SpecShared *)

(* C20: whatever other collectors are initialised or polled, the layer     *)
(* metrics the schema poll of this collector synthesizes are those of its  *)
(* own template: no service_time_latency metric unless its own template    *)
(* asks for it                                                             *)
CollectorsShareNothing ==
    \A x \in Range(params.resource_map) :
        GetMetric(mat, layerMetricKey(x.tag, "service_time_latency"))
        => (params.refine /\ params.with_service_latency # "false")

----------------------------------------------------------------------------
(* Properties of workload-detail objects *)

(* The records of a data response whose key names a layer of resource_map  *)
(* and whose service_time and wait_time are both numbers                   *)
LayerRecords(perfRecords, p) ==
    {rec \in UNION {Range(perfRecords[b].Records) : b \in DOMAIN perfRecords} :
        /\ rec.isObject
        /\ splitLayer(pollDataKey(parseProps(rec), InstanceKeys(p))).found
        /\ \E x \in Range(p.resource_map) :
              splitLayer(pollDataKey(parseProps(rec), InstanceKeys(p))).after = <<x.tag>>
        /\ parseMetricResponse(rec, "service_time").exists
        /\ parseMetricResponse(rec, "service_time").value.num
        /\ parseMetricResponse(rec, "wait_time").exists
        /\ parseMetricResponse(rec, "wait_time").value.num}

WorkloadOf(rec, p) == splitLayer(pollDataKey(parseProps(rec), InstanceKeys(p))).before
LayerLatencyOf(rec, p) ==
    layerKey(splitLayer(pollDataKey(parseProps(rec), InstanceKeys(p))).after, "resource_latency")
CounterOf(rec, name) == parseMetricResponse(rec, name).value.n

(* C17: a workload-detail record keyed <cluster>:<workload>.<layer> with   *)
(* its layer in resource_map has its service_time and wait_time added into *)
(* {layer}resource_latency of instance <workload>: the raw value is their  *)
(* sum, the emitted value is the delta of that sum divided by the delta of *)
(* the parent's ops unless the pair is skipped, and service_time and       *)
(* wait_time themselves have no value for the instance                     *)
LayerLatencyIsSumOverOps ==
    [][
    (lastCall' = "PollData" /\ lastErr' = NoErr /\ isWorkloadDetailObject(params.query)) =>
        \A rec \in LayerRecords(lastInput', params) :
            LET w == WorkloadOf(rec, params)
                k == LayerLatencyOf(rec, params)
            IN w \in populated'.inst =>
                 /\ populated'.val[k][w]
                        = Num(CounterOf(rec, "service_time") + CounterOf(rec, "wait_time"))
                 /\ ~ populated'.val["service_time"][w].ok
                 /\ ~ populated'.val["wait_time"][w].ok
                 /\ emitted'.some =>
                        /\ ~ emitted'.m.val["service_time"][w].ok
                        /\ ~ emitted'.m.val["wait_time"][w].ok
                        /\ \/ <<k, w>> \in skipped'
                           \/ emitted'.m.val[k][w]
                                 = RatDiv(RawDelta(populated', mat, k, w),
                                          RawDelta(populated', mat, "ops", w))
    ]_vars

(* service_time 600 and wait_time 200 after 300 and 100, parent ops 100    *)
(* after 50: (300 + 100) / 50 = 8                                          *)
LayerLatencyEmitted ==
    /\ DataCycle
    /\ emitted.some
    /\ LayerRecords(lastInput, params) # {}
    /\ <<"w1">> \in emitted.m.inst
    /\ populated.val["CPU_dbladeresource_latency"][<<"w1">>] = Num(800)
    /\ populated.val["ops"][<<"w1">>] = Num(100)
    /\ emitted.m.val["CPU_dbladeresource_latency"][<<"w1">>] = Num(8)
    /\ <<"CPU_dbladeresource_latency", <<"w1">>>> \notin skipped

(* The ops values the parent response returns for the instance named w *)
ParentOps(parent, w) ==
    {Num(parseMetricResponse(parent.records[j], "ops").value.n) :
        j \in {x \in DOMAIN parent.records :
                  /\ parent.records[x].isObject
                  /\ parseProperties(parent.records[x], "name").exists
                  /\ parseProperties(parent.records[x], "name").value = w
                  /\ parseMetricResponse(parent.records[x], "ops").exists
                  /\ parseMetricResponse(parent.records[x], "ops").value.num}}

(* C16: every instance of the matrix a workload-detail PollData emits has  *)
(* an ops value, the one the parent QoS fetch of the same cycle returned   *)
(* for the instance of that name                                           *)
EveryInstanceHasParentOps ==
    (DataCycle /\ isWorkloadDetailObject(params.query) /\ emitted.some) =>
        \A w \in emitted.m.inst :
            /\ populated.val["ops"][w].ok
            /\ populated.val["ops"][w] \in ParentOps(lastParent, w)

----------------------------------------------------------------------------
(* Properties of the order of the phases *)

(* C21: a PollData on a stored matrix without an instance returns          *)
(* ErrNoInstance, and one on a matrix with instances but without the       *)
(* timestamp metric returns ErrConfig; neither fetches, populates or       *)
(* changes any state of the collector, and nothing is emitted              *)
DataNeverPrecedesInstancesAndSchema ==
    [][
    (lastCall' = "PollData" /\ (mat.inst = {} \/ ~ GetMetric(mat, timestampMetricName))) =>
        /\ lastErr' = (IF mat.inst = {} THEN ErrNoInstance ELSE ErrConfig)
        /\ lastFault' = ""
        /\ lastInput' = <<>>
        /\ emitted' = NoMatrix
        /\ UNCHANGED <<params, metrics, archivedMetrics, counterInfo, instanceLabels,
                       workloadDetailMetrics, mat, isCacheEmpty, metadata, cycles,
                       populated, skipped, lastParent, parsed, inFlight>>
    ]_vars

(* PollData ran after PollInstance and before any schema poll *)
DataPolledBeforeSchema ==
    /\ lastCall = "PollData"
    /\ mat.inst # {}
    /\ ~ GetMetric(mat, timestampMetricName)
    /\ lastErr = ErrConfig

----------------------------------------------------------------------------
(* Properties of the metadata *)

(* The instance a data record is about *)
DataKeyOf(rec, p) ==
    IF isWorkloadDetailObject(p.query) THEN WorkloadOf(rec, p)
    ELSE pollDataKey(parseProps(rec), InstanceKeys(p))

(* The instances of m that a record of the response marks incomplete *)
MarkedIncomplete(perfRecords, m, p) ==
    {i \in m.inst :
        \E b \in DOMAIN perfRecords : \E j \in DOMAIN perfRecords[b].Records :
            /\ perfRecords[b].Records[j].isObject
            /\ perfRecords[b].Records[j].complete = "false"
            /\ DataKeyOf(perfRecords[b].Records[j], p) = i}

(* C22: after each PollData cycle numPartials is the number of instances   *)
(* of the current matrix that the response of the cycle marked incomplete, *)
(* and those instances are the ones flagged partial                        *)
NumPartialsCountsInstances ==
    DataCycle =>
        /\ populated.partial = MarkedIncomplete(lastInput, populated, params)
        /\ metadata.numPartials = Cardinality(populated.partial)

----------------------------------------------------------------------------
(* Properties of the order of post-processing *)

(* The matrix as the first pass finds it when it reaches order[idx] *)
CookedBefore(cur, prev, ci, minOps, order, idx) ==
    cookLoop([m |-> Delta(cur, timestampMetricName, prev).m, skips |-> 0, pairs |-> {}],
             SubSeq(order, 1, idx - 1), ci, minOps, Clone(cur, WithData), prev).m

(* C24: in every post-processing run, whatever order the metrics are taken *)
(* in, when an average or percent metric is divided by its base counter    *)
(* the base holds its delta of this cycle: already computed, and not yet   *)
(* divided by anything                                                     *)
BaseHoldsItsDeltaWhenDivided ==
    [][
    CookedCycleStep =>
        \A order \in OrderedKeys(populated', counterInfo) : \A idx \in DOMAIN order :
            LET counter == counterInfo[order[idx]]
            IN (/\ counter.counterType \in {"average", "percent"}
                /\ GetMetric(populated', counter.denominator)) =>
                   \A i \in populated'.inst :
                       CookedBefore(populated', mat, counterInfo, loadLatencyIoReqd(params),
                                    order, idx).val[counter.denominator][i]
                           = DeltaValue(populated', mat, counter.denominator, i)
    ]_vars

----------------------------------------------------------------------------
(* Properties of the latency threshold *)

AveragedKeys(m) == MetricsOfType(m, "average") \cup MetricsOfType(m, "percent")

ScaleOf(k) == IF counterInfo[k].counterType = "percent" THEN PercentScale ELSE 1

(* C25: an average or percent metric whose name ends in latency is divided *)
(* under the threshold: an instance whose base delta, taken from the raw   *)
(* snapshots, is below latency_io_reqd of the template (10 when it gives   *)
(* none) has no value and is counted in the skips, and one at or above it  *)
(* is the quotient of the deltas; any other average or percent metric is   *)
(* the quotient of the deltas whatever the size of the base delta          *)
LatencyDividedUnderThreshold ==
    [][
    CookedCycleStep =>
        \A k \in AveragedKeys(emitted'.m) : \A i \in emitted'.m.inst :
            LET d == counterInfo[k].denominator
                dv == RawDelta(populated', mat, k, i)
                dd == RawDelta(populated', mat, d, i)
                minOps == loadParamInt(params.latency_io_reqd, latencyIoReqd)
            IN (GetMetric(emitted'.m, d) /\ dv.ok /\ dv.n >= 0 /\ dd.ok /\ dd.n > 0) =>
                 IF HasSuffixLatency(k) /\ RatLess(dd, Num(minOps))
                 THEN /\ ~ emitted'.m.val[k][i].ok
                      /\ <<k, i>> \in skipped'
                      /\ metadata'.skips >= 1
                 ELSE /\ emitted'.m.val[k][i] = RatMul(RatDiv(dv, dd), ScaleOf(k))
                      /\ <<k, i>> \notin skipped'
    ]_vars

(* read_ops went from 100 to 105 under the default threshold of 10:        *)
(* read_latency is skipped and read_size is emitted                        *)
LatencySkippedSizeEmitted ==
    /\ DataCycle
    /\ emitted.some
    /\ loadLatencyIoReqd(params) = latencyIoReqd
    /\ populated.val["read_ops"][<<"A">>] = Num(105)
    /\ <<"read_latency", <<"A">>>> \in skipped
    /\ ~ emitted.m.val["read_latency"][<<"A">>].ok
    /\ emitted.m.val["read_size"][<<"A">>].ok
    /\ <<"read_size", <<"A">>>> \notin skipped
    /\ populated.val["read_size"][<<"A">>] = Num(80)

----------------------------------------------------------------------------
(* Properties of the workload-detail key *)

(* strings.LastIndex(key, tok): 0 when the key has no such token *)
LastIndexOf(key, tok) ==
    IF \E i \in DOMAIN key : key[i] = tok
    THEN CHOOSE i \in DOMAIN key : key[i] = tok /\ \A j \in (i + 1)..Len(key) : key[j] # tok
    ELSE 0

(* <cluster>:<workload>.<resource> taken apart at the first ":" and the    *)
(* last "."                                                                *)
WorkloadToLastDot(key) == SubSeq(key, IndexOf(key, ":") + 1, LastIndexOf(key, ".") - 1)
ResourceAfterLastDot(key) == SubSeq(key, LastIndexOf(key, ".") + 1, Len(key))

(* C26: a workload-detail record is keyed to the instance named by what    *)
(* stands between the cluster prefix and the last dot of its raw key, and  *)
(* to the layer after that dot, also when the workload name has dots: a    *)
(* record of a cached workload and of a layer of resource_map gives the    *)
(* layer's resource_latency of that workload a value                       *)
KeySplitAtLastDot ==
    (DataCycle /\ isWorkloadDetailObject(params.query)) =>
        \A b \in DOMAIN lastInput : \A j \in DOMAIN lastInput[b].Records :
            LET rec == lastInput[b].Records[j]
                key == pollDataKey(parseProps(rec), InstanceKeys(params))
            IN (/\ rec.isObject
                /\ LastIndexOf(key, ".") # 0
                /\ parseMetricResponse(rec, "service_time").value.num
                /\ \E x \in Range(params.resource_map) :
                      ResourceAfterLastDot(key) = <<x.tag>>
                /\ WorkloadToLastDot(key) \in populated.inst) =>
                   populated.val[layerKey(ResourceAfterLastDot(key), "resource_latency")]
                                [WorkloadToLastDot(key)].ok

----------------------------------------------------------------------------
(* Properties of the instance key *)

(* The values of the named fields of a record, joined in that order *)
RECURSIVE Joined(_, _)
Joined(rec, fields) ==
    IF fields = <<>> THEN <<>> ELSE rec.props[Head(fields)] \o Joined(rec, Tail(fields))

(* The instance polls and data polls of a behaviour key every record that  *)
(* has all key fields by joining the fields in the given order             *)
KeyedInOrder(fields) ==
    /\ (lastCall = "PollInstance" /\ lastErr = NoErr) =>
           mat.inst = {Joined(lastInput[j], fields) : j \in DOMAIN lastInput}
    /\ DataCycle =>
           \A b \in DOMAIN lastInput : \A j \in DOMAIN lastInput[b].Records :
               LET rec == lastInput[b].Records[j]
               IN \/ /\ Joined(rec, fields) \in populated.inst
                     /\ populated.val["total_data"][Joined(rec, fields)].ok
                  \/ /\ Joined(rec, <<"node", "disk">>) \notin populated.inst
                     /\ Joined(rec, <<"disk", "node">>) \notin populated.inst

(* C27 as stated: the key fields are joined in the order the template      *)
(* declares them, in every instance poll and every data poll               *)
KeyJoinedInDeclaredOrder == KeyedInOrder(params.keys)

(* C27: the key fields are joined in ascending order of their display      *)
(* names, whatever order the template declares them in, in every instance  *)
(* poll and every data poll                                                *)
KeyJoinedInDisplayOrder == KeyedInOrder(<<"disk", "node">>)

(* A template that declares node before disk, its instance keyed disk      *)
(* first, and a data poll that found that instance                         *)
NodeDeclaredFirstDiskJoinedFirst ==
    /\ params.keys = <<"node", "disk">>
    /\ DataCycle
    /\ <<"d1", "n1">> \in populated.inst
    /\ populated.val["total_data"][<<"d1", "n1">>].ok

----------------------------------------------------------------------------
(* Properties of the layer metrics of a workload-detail schema poll *)

(* The workload-detail metrics the collector's own template enables *)
OwnDetailMetrics(p) ==
    {"resource_latency"}
        \cup (IF p.refine /\ p.with_service_latency # "false"
              THEN {"service_time_latency"} ELSE {})

(* The metric of a layer and a workload-detail metric exists, carries the  *)
(* resource label, and its counter type and unit are those of service_time *)
(* with denominator ops                                                    *)
IsLayerMetric(x, wm) ==
    LET key == layerMetricKey(x.tag, wm)
    IN /\ GetMetric(mat, key)
       /\ Has(mat.met[key].labels, "resource")
       /\ mat.met[key].labels["resource"] = x.resource
       /\ Has(counterInfo, key)
       /\ counterInfo[key].counterType = counterInfo["service_time"].counterType
       /\ counterInfo[key].unit = counterInfo["service_time"].unit
       /\ counterInfo[key].denominator = "ops"

(* C28: after a schema poll of a workload-detail object that returned no   *)
(* error, every layer of resource_map has the metric of every              *)
(* workload-detail metric the collector's own template enables, cloned     *)
(* from service_time with denominator ops and labelled with the resource,  *)
(* and it has a service_time_latency metric exactly when the own template  *)
(* enables refine.with_service_latency                                     *)
LayerMetricsOfOwnTemplate ==
    (/\ lastCall = "PollCounter"
     /\ lastErr = NoErr
     /\ isWorkloadDetailObject(params.query))
    => \A x \in Range(params.resource_map) :
          /\ \A wm \in OwnDetailMetrics(params) : IsLayerMetric(x, wm)
          /\ GetMetric(mat, layerMetricKey(x.tag, "service_time_latency"))
             <=> "service_time_latency" \in OwnDetailMetrics(params)

----------------------------------------------------------------------------
(* Properties of array counters, checked under SpecArray *)

(* The counters of the records of a data response *)
CountersOf(perfRecords) ==
    UNION {Range(perfRecords[b].Records[j].counters) :
              <<b, j>> \in {x \in (DOMAIN perfRecords) \X (1..MaxRecords) :
                               x[2] \in DOMAIN perfRecords[x[1]].Records}}

(* A plain array whose values differ in number from its labels *)
ArrayLengthsDiffer(each) ==
    "values" \in DOMAIN each /\ Len(each.values) # Len(each.labels)

(* A list of sub-counters one of which has more or fewer values than the   *)
(* counter has labels                                                      *)
SubCounterLengthsDiffer(each) ==
    /\ "counters" \in DOMAIN each
    /\ \E i \in DOMAIN each.counters : Len(each.counters[i].values) # Len(each.labels)

(* The data poll gave the instance no value of any element of the counter *)
NoValueOf(name, instanceKey) ==
    \A l \in ArrayLabels :
        GetMetric(populated, arrayKey(name, l))
        => ~ populated.val[arrayKey(name, l)][instanceKey].ok

(* A plain array whose values differ in number from its labels gives its   *)
(* record no metric value                                                  *)
MismatchedArrayDiscarded ==
    DataCycle => \A each \in CountersOf(lastInput) :
                    ArrayLengthsDiffer(each) => NoValueOf(each.name, <<"A">>)

(* C29: an array counter whose values differ in number from its labels,    *)
(* and a list of sub-counters one of which has more or fewer values than   *)
(* the counter has labels, gives its record no metric value                *)
MismatchedCounterDiscarded ==
    DataCycle => \A each \in CountersOf(lastInput) :
                    (ArrayLengthsDiffer(each) \/ SubCounterLengthsDiffer(each))
                    => NoValueOf(each.name, <<"A">>)

(* The metric of element i of a histogram: flagged array and histogram,    *)
(* labelled with its index and its bucket metric, holding the value        *)
IsHistogramElement(each, i, instanceKey) ==
    LET k == arrayKey(each.name, each.labels[i])
    IN /\ GetMetric(populated, k)
       /\ populated.met[k].array
       /\ populated.met[k].histogram
       /\ Has(populated.met[k].labels, "comment")
       /\ populated.met[k].labels["comment"] = Itoa(i - 1)
       /\ Has(populated.met[k].labels, "bucket")
       /\ populated.met[k].labels["bucket"] = bucketKey(each.name)
       /\ each.values[i].num => populated.val[k][instanceKey] = Num(each.values[i].n)

(* The bucket metric of a histogram carries the labels in their order and  *)
(* is not post-processed: no counter type is ever set on it                *)
IsBucketMetric(each) ==
    LET key == bucketKey(each.name)
    IN /\ GetMetric(populated, key)
       /\ populated.met[key].buckets = [set |-> TRUE, list |-> each.labels]
       /\ key \notin PostProcessed(populated, counterInfo)
       /\ emitted.some => emitted.m.met[key].property = ""
       /\ mat.met[key].property = ""

(* C30: for an array counter that the schema describes as a histogram and  *)
(* that has as many values as labels, a data poll makes one metric         *)
(* name#label per label, holding the value of that label, flagged array    *)
(* and histogram, labelled with the index of the label and with the bucket *)
(* name.bucket, and a bucket metric name.bucket that carries the labels in *)
(* order and is never post-processed                                       *)
HistogramFlattened ==
    DataCycle =>
        \A each \in CountersOf(lastInput) :
            (/\ "values" \in DOMAIN each
             /\ Len(each.values) = Len(each.labels)
             /\ isHistogramDescription(counterInfo[each.name].description))
            => /\ \A i \in DOMAIN each.labels : IsHistogramElement(each, i, <<"A">>)
               /\ IsBucketMetric(each)

(* A histogram of two buckets was polled and cooked: its second bucket     *)
(* holds the second value under index 1                                    *)
HistogramPolled ==
    /\ DataCycle
    /\ emitted.some
    /\ ArrayCounter(<<Parsed(10), Parsed(30)>>) \in CountersOf(lastInput)
    /\ isHistogramDescription(counterInfo["read_latency_hist"].description)
    /\ populated.val[arrayKey("read_latency_hist", "1_to_4ms")][<<"A">>] = Num(30)
    /\ populated.met[arrayKey("read_latency_hist", "1_to_4ms")].labels["comment"] = "1"

----------------------------------------------------------------------------
(* Properties of the parsing of a record's counters *)

(* The records of a data response *)
RecordsOf(perfRecords) ==
    UNION {Range(perfRecords[b].Records) : b \in DOMAIN perfRecords}

(* The requested counters a record lists *)
ListedIn(rec, wanted) == {rec.counters[i].name : i \in DOMAIN rec.counters} \cap wanted

(* C31: the counters of a record are parsed until every requested metric   *)
(* was matched, and no requested counter the record lists is left out:     *)
(* every such counter has an entry in the result                           *)
EarlyExitDropsNothing ==
    DataCycle =>
        \A rec \in RecordsOf(lastInput) :
            ListedIn(rec, DOMAIN metrics)
                \subseteq DOMAIN parseMetricResponses(rec, DOMAIN metrics)

----------------------------------------------------------------------------
(* Properties of the schema cache *)

(* C32: an instance poll and a data poll, whatever they return and in any  *)
(* interleaving with schema polls, leave the active metrics, the archive   *)
(* and counterInfo as they were                                            *)
SchemaCacheOnlyBySchemaPoll ==
    [][lastCall' \in {"PollInstance", "PollData"}
       => UNCHANGED <<metrics, archivedMetrics, counterInfo>>]_vars

(* A data poll that cooked and emitted, after a schema poll that recorded  *)
(* counters                                                                *)
DataPolledWithSchemaCached ==
    /\ DataCycle
    /\ emitted.some
    /\ DOMAIN counterInfo # {}
    /\ DOMAIN metrics # {}

----------------------------------------------------------------------------
(* Properties of the instance cache across data polls, checked under       *)
(* SpecKeyOrder                                                            *)

(* C33: a data poll neither adds nor removes an instance: the matrix it    *)
(* stores, the matrix it parsed the records into and the matrix it emits   *)
(* have the instance keys stored before the call, also when a record names *)
(* an instance that is not cached; only an instance poll changes the keys  *)
InstancesOnlyByInstancePoll ==
    [][/\ lastCall' = "PollData"
          => /\ mat'.inst = mat.inst
             /\ lastErr' = NoErr => populated'.inst = mat.inst
             /\ emitted'.some => emitted'.m.inst = mat.inst
       /\ mat'.inst # mat.inst => lastCall' = "PollInstance"]_vars

(* A data poll cooked and emitted while its record named an instance the   *)
(* cache does not hold                                                     *)
UnknownInstancePolled ==
    /\ DataCycle
    /\ emitted.some
    /\ \E rec \in RecordsOf(lastInput) :
          pollDataKey(parseProps(rec), InstanceKeys(params)) \notin mat.inst

----------------------------------------------------------------------------
(* Properties of the two matrices of a data poll, checked under SpecArray *)

(* C34: when the records of a data poll are parsed and post-processing     *)
(* starts, every metric of the current matrix is a metric of the previous  *)
(* matrix too, the metrics the records of this poll brought included, so   *)
(* the delta of every post-processed metric finds it in the previous       *)
(* matrix                                                                  *)
EveryMetricInPrev ==
    [][(lastCall' = "PollData" /\ lastErr' = NoErr)
       => \E s \in {populate(Now, lastInput')} :
             /\ populated' = s.cur
             /\ DOMAIN s.cur.met \subseteq DOMAIN s.prev.met
             /\ \A k \in PostProcessed(s.cur, counterInfo) : Has(s.prev.val, k)]_vars

(* The second data poll brought sub-counters after the first brought a     *)
(* plain array, or the reverse: the metrics of both are cached, and those  *)
(* first seen in the second poll had no earlier value to take a delta from *)
NewMetricInSecondPoll ==
    /\ DataCycle
    /\ emitted.some
    /\ cycles = 2
    /\ GetMetric(mat, arrayKey("read_latency_hist", "lt_1ms"))
    /\ GetMetric(mat, arrayKey("read_latency_hist", flatLabel("lt_1ms", "nfs")))
    /\ \E k \in DOMAIN mat.met : <<k, <<"A">>>> \in skipped

----------------------------------------------------------------------------
(* Properties of records that lack a key field, checked under SpecInstance *)

(* C35: an instance poll passes over a record that lacks a key field: the  *)
(* record makes no instance and keeps no cached instance from removal, so  *)
(* after a poll of a response with records the cache holds the keys of the *)
(* records that have every key field, and no other                         *)
RecordWithoutKeySkipped ==
    (InstancePolled /\ lastInput # <<>>) => mat.inst = CompleteKeys(lastInput, params)

----------------------------------------------------------------------------
(* Properties of the keys of the two polls, checked under SpecMissingKey *)

(* C36: for an object that is no workload, a data poll derives from a      *)
(* record the key an instance poll derives from a record of the same       *)
(* properties, also when a key field is absent, so the record of a cached  *)
(* instance is given to that instance                                      *)
DataKeyIsInstanceKey ==
    DataCycle =>
        \A rec \in RecordsOf(lastInput) :
            LET key == pollInstanceKey(rec, pollInstanceKeys(params), params)
            IN /\ pollDataKey(parseProps(rec), InstanceKeys(params)) = key
               /\ key \in mat.inst => populated.val[timestampMetricName][key].ok
----------------------------------------------------------------------------
(* The two counter parsers, checked under SpecParse *)

(* The counter of that name in the record, each name being listed once *)
CounterNamed(instanceData, metric) ==
    instanceData.counters[CHOOSE i \in DOMAIN instanceData.counters :
                              instanceData.counters[i].name = metric]

FormOf(each) ==
    IF hasValue(each) THEN "scalar"
    ELSE IF "values" \in DOMAIN each THEN "array"
    ELSE IF "counters" \in DOMAIN each THEN "sub-counters" ELSE "empty"

(* Both parsers answered, with the same value, label and isArray *)
ParsersAgree ==
    /\ ~parsed.single.panic
    /\ parsed.single.exists
    /\ Has(parsed.multi, parsed.metric)
    /\ parsed.single.isArray = parsed.multi[parsed.metric].isArray
    /\ parsed.single.value = parsed.multi[parsed.metric].value
    /\ parsed.single.label = parsed.multi[parsed.metric].label

ParsedForm(forms) ==
    /\ parsed.some
    /\ \E i \in DOMAIN parsed.instanceData.counters :
           parsed.instanceData.counters[i].name = parsed.metric
    /\ FormOf(CounterNamed(parsed.instanceData, parsed.metric)) \in forms

(* The scalar and the array form are parsed alike *)
ScalarAndArrayAgree == ParsedForm({"scalar", "array"}) => ParsersAgree

(* C37: for any record and any counter name present in it, the parser of  *)
(* one metric and the parser of many metrics return the same value, label *)
(* and isArray, for the scalar, the array and the sub-counter form        *)
SingleParserAgreesWithMulti ==
    ParsedForm({"scalar", "array", "sub-counters"}) => ParsersAgree


----------------------------------------------------------------------------
(* The matrix PollData returns and the matrix it stores, checked under Spec *)

(* C38: the matrix PollData returns is never the matrix stored as the     *)
(* baseline of the next cycle, and its values are not in the storage of   *)
(* that matrix                                                            *)
EmittedNeverStored ==
    emitted.some => /\ refs.emitted.matrix # refs.stored.matrix
                    /\ refs.emitted.data # refs.stored.data

(* PollData returned a cooked matrix whose values differ from the raw     *)
(* values it stored                                                       *)
CookedEmittedRawStored ==
    /\ lastCall = "PollData"
    /\ emitted.some
    /\ refs.emitted # NilRef
    /\ emitted.m.val # mat.val

----------------------------------------------------------------------------
(* The latency metrics of the layers, checked under SpecWait *)

LayerTags == {"CPU_dblade", "DISK_HDD"}

WaitTimeLatencyKeys == {layerMetricKey(tag, "wait_time_latency") : tag \in LayerTags}

HasWaitTimeLatency(m) == \E key \in WaitTimeLatencyKeys : GetMetric(m, key)

(* The populated value of a layer metric of workload w *)
LayerValue(wm, w) == populated.val[layerMetricKey("CPU_dblade", wm)][w]

(* C39: whatever refine and with_service_latency are, wait_time_latency   *)
(* is never among the workload-detail metrics, so its branch of the data  *)
(* poll is never taken and no matrix has a metric {tag}wait_time_latency; *)
(* the wait_time of a record is added into the layer's resource_latency   *)
(* and reaches no other layer metric                                      *)
NoWaitTimeLatency ==
    /\ \A j \in DOMAIN workloadDetailMetrics :
           workloadDetailMetrics[j] \in {"resource_latency", "service_time_latency"}
    /\ ~ HasWaitTimeLatency(mat)
    /\ ~ HasWaitTimeLatency(populated)
    /\ emitted.some => ~ HasWaitTimeLatency(emitted.m)
    /\ (lastCall = "PollData" /\ lastErr = NoErr) =>
           \A i \in DOMAIN lastInput : \A n \in DOMAIN lastInput[i].Records :
               \E rec \in {lastInput[i].Records[n]} :
                   \E w \in {splitLayer(pollDataKey(parseProps(rec), InstanceKeys(params))).before} :
                       (w \in populated.inst /\ layerKnown(populated, <<"CPU_dblade">>,
                                                            workloadDetailMetrics)) =>
                           /\ LayerValue("resource_latency", w)
                                  = Num(parseMetricResponse(rec, "service_time").value.n
                                          + parseMetricResponse(rec, "wait_time").value.n)
                           /\ \A j \in DOMAIN workloadDetailMetrics :
                                  workloadDetailMetrics[j] = "service_time_latency" =>
                                      LayerValue("service_time_latency", w)
                                          = Num(parseMetricResponse(rec, "service_time").value.n)

(* A data poll read a wait_time while service_time_latency was among the  *)
(* workload-detail metrics                                                *)
WaitTimePolledWithServiceLatency ==
    /\ lastCall = "PollData"
    /\ lastErr = NoErr
    /\ \E j \in DOMAIN workloadDetailMetrics : workloadDetailMetrics[j] = "service_time_latency"
    /\ \E w \in populated.inst :
           /\ GetMetric(populated, layerMetricKey("CPU_dblade", "service_time_latency"))
           /\ LayerValue("resource_latency", w).ok
           /\ LayerValue("service_time_latency", w).ok
           /\ LayerValue("resource_latency", w) # LayerValue("service_time_latency", w)

----------------------------------------------------------------------------
(* Polls that find no instance, checked under SpecInstance *)

(* C40: whenever PollInstance or PollData returns ErrNoInstance, the      *)
(* stored matrix and isCacheEmpty are what they were before the call      *)
NoInstanceKeepsBaseline ==
    [][(lastCall' \in {"PollInstance", "PollData"} /\ lastErr' = ErrNoInstance)
          => UNCHANGED <<mat, isCacheEmpty>>]_vars

(* The same of PollData alone *)
NoInstanceDataKeepsBaseline ==
    [][(lastCall' = "PollData" /\ lastErr' = ErrNoInstance)
          => UNCHANGED <<mat, isCacheEmpty>>]_vars

(* The same of a PollInstance whose response holds no record *)
NoRecordKeepsBaseline ==
    [][(lastCall' = "PollInstance" /\ lastErr' = ErrNoInstance /\ lastInput' = <<>>)
          => UNCHANGED <<mat, isCacheEmpty>>]_vars

====
